---- MODULE Spec2Model ----
(***************************************************************************)
(* Prediction and simulation engine of soccer_predictor.                   *)
(*                                                                         *)
(* Python floats are modelled in fixed point so that every result stays    *)
(* inside 32-bit integers:                                                 *)
(*   - a rating is an integer number of 1e-5 Elo points (Pts(1500) is the  *)
(*     default rating);                                                    *)
(*   - a probability is an integer number of 2^-28 (One is 1.0);           *)
(*   - a K-factor multiplier is in thousandths, a league coefficient in    *)
(*     hundredths;                                                         *)
(*   - a value rounded by round(x, 4) is an integer number of 1e-4;        *)
(*   - expected goals, goals per game, attack and defense strengths are    *)
(*     in thousandths.                                                     *)
(* Time is counted in days.                                                *)
(***************************************************************************)
EXTENDS Integers, Sequences, FiniteSets, TLC

----------------------------------------------------------------------------
(* Bounds of the model *)

MaxOps == 3
MaxClock == 1
GridSteps == 6
MaxGoalsScored == 4
MaxSims == 2
MaxTrials == 2
MaxSimGoals == 1
MaxShift == 1
MaxUpsets == 1
MaxTrackOps == 4
MaxThreadCalls == 3
MaxAcquires == 3
MaxWall == 3

----------------------------------------------------------------------------
(* Float arithmetic *)

Unit == 10^5
One == 2^28
Half == 2^14

Pts(n) == n * Unit

Abs(x) == IF x < 0 THEN -x ELSE x

Min(a, b) == IF a < b THEN a ELSE b

Max(a, b) == IF a > b THEN a ELSE b

\* x / n truncated toward zero
TDiv(x, n) == IF x >= 0 THEN x \div n ELSE -((-x) \div n)

\* a * b for two non-negative fractions of One, truncated
FMul(a, b) ==
  LET a1 == a \div Half
      a0 == a % Half
      b1 == b \div Half
      b0 == b % Half
  IN  a1 * b1 + ((a1 * b0 + a0 * b1 + ((a0 * b0) \div Half)) \div Half)

\* a * b with a sign on either side, truncated toward zero
SMul(a, b) ==
  IF (a < 0) = (b < 0) THEN FMul(Abs(a), Abs(b)) ELSE -FMul(Abs(a), Abs(b))

RECURSIVE DivBits(_, _, _, _)
DivBits(r, b, n, q) ==
  IF n = 0 THEN q
  ELSE IF 2 * r >= b THEN DivBits(2 * r - b, b, n - 1, 2 * q + 1)
       ELSE DivBits(2 * r, b, n - 1, 2 * q)

\* a / b as a fraction of One, for 0 <= a <= b
FDiv(a, b) == IF a = b THEN One ELSE DivBits(a, b, 28, 0)

\* round(p, 4) of a fraction of One, in units of 1e-4
Round4(p) ==
  LET p1 == p \div Half
      p0 == p % Half
  IN  (p1 * 10000 + ((p0 * 10000) \div Half) + (Half \div 2)) \div Half

\* 10^(-2^(i-1) / (400 * Unit)) as a fraction of One, i = 1..29
Pow10Tab ==
  << 268435441, 268435425, 268435394, 268435332, 268435209, 268434962,
     268434467, 268433478, 268431500, 268427544, 268419633, 268403811,
     268372170, 268308900, 268182403, 267929589, 267424676, 266417702,
     264415116, 260454988, 252711775, 237909113, 210854211, 165624538,
     102190254, 38902640, 5637912, 118412, 52 >>

RECURSIVE Pow10Bits(_, _, _)
Pow10Bits(d, i, acc) ==
  IF d = 0 THEN acc
  ELSE IF i > Len(Pow10Tab) THEN 0
  ELSE Pow10Bits(d \div 2, i + 1,
                 IF d % 2 = 1 THEN FMul(acc, Pow10Tab[i]) ELSE acc)

\* math.pow(10, -d / 400) for a rating difference d >= 0
Pow10Neg(d) == Pow10Bits(d, 1, One)

\* 1.0 / (1.0 + math.pow(10, -d / 400))
Logistic(d) ==
  IF d >= 0 THEN FDiv(One, One + Pow10Neg(d))
  ELSE LET q == Pow10Neg(-d) IN FDiv(q, One + q)

----------------------------------------------------------------------------
(* EloRatingSystem *)

DEFAULT_ELO == Pts(1500)

K_FACTOR == 32

HOME_ADVANTAGE == Pts(65)

NoLeague == "None"

\* in hundredths
LEAGUE_COEFFICIENTS ==
  [ l \in {"Premier League", "Ligue 1", "default"} |->
      CASE l = "Premier League" -> 115
        [] l = "Ligue 1" -> 100
        [] OTHER -> 85 ]

LeagueCoef(league) ==
  IF league \in DOMAIN LEAGUE_COEFFICIENTS
  THEN LEAGUE_COEFFICIENTS[league]
  ELSE LEAGUE_COEFFICIENTS["default"]

\* the pre-seeded ratings of the singleton, restricted to the model's teams
ALL_TEAM_RATINGS == [ t \in {"Arsenal"} |-> Pts(1920) ]

Teams == {"Arsenal", "arsenal", "Porto"}

\* set_elo calls: (team, elo)
SetInputs == { << "Porto", Pts(2500) >>, << "arsenal", Pts(1000) >> }

\* calculate_new_ratings calls:
\* (home_team, away_team, home_goals, away_goals, league, match_importance)
MatchInputs ==
  { << "Arsenal", "Porto", 0, 4, "Ligue 1", 1000 >>,
    << "Porto", "arsenal", 3, 1, "Ligue 1", 1000 >>,
    << "Porto", "Arsenal", 2, 2, "Premier League", 1500 >> }

\* predict_outcome calls: (home_team, away_team)
PredictInputs == { << "Arsenal", "Porto" >> }

DecayThresholds == { 0, 1 }

\* simulate_league calls: the team names of current_standings
StandingsInputs == { << >>, << "Arsenal", "Porto" >> }

\* simulate_knockout requests: (name, elo) of each team, elo 0 when omitted
KnockoutInputs ==
  { << [ name |-> "Arsenal", elo |-> Pts(1900) ],
       [ name |-> "arsenal", elo |-> 0 ] >> }

VARIABLES ratings, now, lastOp, prev, ret, decayRun, nOps

eloVars == << ratings, now, lastOp, prev, ret, decayRun, nOps >>

VARIABLES calc

calcVars == << calc >>

\* the simulation in progress, the arguments and result of the last league
\* simulation that returned, the number of simulations started
VARIABLES sim, lastSim, nSims

simVars == << sim, lastSim, nSims >>

\* PredictionTracker: the records, the monthly files, the last call and what
\* it returned, the number of calls; the scores recorded for each record
\* since it was stored
VARIABLES predictions, storage, trackOp, trackRet, nTrack, outcomes

trackVars == << predictions, storage, trackOp, trackRet, nTrack, outcomes >>

\* the threads that call the tracker
Threads == { "t1", "t2" }

\* calls of the tracker running in threads: what each thread is doing, the
\* records when the running calls began, and the calls begun since then
VARIABLES workers, base, round

workerVars == << workers, base, round >>

\* the RateLimiter of the ESPN client and the number of acquire calls
VARIABLES limiter, nAcquire

limiterVars == << limiter, nAcquire >>

vars == << eloVars, calcVars, simVars, trackVars, workerVars, limiterVars >>

NewRating(league, t) ==
  [ elo |-> DEFAULT_ELO, home_elo |-> DEFAULT_ELO, away_elo |-> DEFAULT_ELO,
    matches |-> 0, league |-> league, last_updated |-> t ]

\* the store after get_rating(team, league)
get_rating(R, team, league, t) ==
  IF team \in DOMAIN R THEN R
  ELSE [ x \in DOMAIN R \cup {team} |->
           IF x = team THEN NewRating(league, t) ELSE R[x] ]

\* the store after get_elo(team)
get_elo(R, team, t) == get_rating(R, team, NoLeague, t)

\* the store after set_elo(team, elo, league)
set_elo(R, team, elo, league, t) ==
  LET R1 == get_rating(R, team, league, t)
  IN  [ R1 EXCEPT ![team].elo = elo, ![team].last_updated = t ]

\* (home_expected, away_expected)
\* expected_score with the away expectation computed on its own, without the
\* home advantage
expected_score_unpaired(home_elo, away_elo, include_home_advantage, ha) ==
  LET h == IF include_home_advantage THEN home_elo + ha ELSE home_elo
      home_expected == Logistic(h - away_elo)
  IN  << home_expected, Logistic(away_elo - home_elo) >>

expected_score(home_elo, away_elo, include_home_advantage, ha) ==
  LET h == IF include_home_advantage THEN home_elo + ha ELSE home_elo
      home_expected == Logistic(h - away_elo)
  IN  << home_expected, One - home_expected >>

\* in thousandths
goal_difference_multiplier(goal_diff, winner_elo, loser_elo) ==
  LET abs_diff == Abs(goal_diff)
      multiplier == IF abs_diff <= 1 THEN 1000
                    ELSE IF abs_diff = 2 THEN 1500
                    ELSE IF abs_diff = 3 THEN 1750
                    ELSE 1750 + (abs_diff - 3) * 125
  IN  IF loser_elo > winner_elo
      THEN LET elo_diff == loser_elo - winner_elo
               upset_boost == 1000 + Min(300, (elo_diff * 2) \div Unit)
           IN  (multiplier * upset_boost) \div 1000
      ELSE multiplier

\* the K-factor of one match, in rating units
MatchK(gd_mult, match_importance, league) ==
  (((((K_FACTOR * gd_mult) * match_importance) \div 1000)
      * LeagueCoef(league)) \div 100) * (Unit \div 1000)

\* (home_change, away_change) of calculate_new_ratings
RatingChanges(home_elo, away_elo, home_goals, away_goals, league, match_importance, ha) ==
  LET e == expected_score(home_elo, away_elo, TRUE, ha)
      home_actual == IF home_goals > away_goals THEN One
                     ELSE IF home_goals < away_goals THEN 0
                     ELSE One \div 2
      away_actual == IF home_goals > away_goals THEN 0
                     ELSE IF home_goals < away_goals THEN One
                     ELSE One \div 2
      gd_mult == IF home_goals > away_goals
                 THEN goal_difference_multiplier(home_goals - away_goals,
                                                 home_elo, away_elo)
                 ELSE IF home_goals < away_goals
                 THEN goal_difference_multiplier(away_goals - home_goals,
                                                 away_elo, home_elo)
                 ELSE 1000
      k == MatchK(gd_mult, match_importance, league)
  IN  << SMul(k, home_actual - e[1]), SMul(k, away_actual - e[2]) >>

\* 0.7 * old + 0.3 * updated
Smooth(old, updated) == old + TDiv(3 * (updated - old), 10)

\* the store after calculate_new_ratings, for two different teams
calculate_new_ratings(R, home_team, away_team, home_goals, away_goals, league, match_importance, ha, t) ==
  LET R2 == get_rating(get_rating(R, home_team, league, t),
                       away_team, league, t)
      home_elo == R2[home_team].elo
      away_elo == R2[away_team].elo
      ch == RatingChanges(home_elo, away_elo, home_goals, away_goals,
                          league, match_importance, ha)
      new_home_elo == home_elo + ch[1]
      new_away_elo == away_elo + ch[2]
  IN  [ R2 EXCEPT
          ![home_team].elo = new_home_elo,
          ![home_team].matches = @ + 1,
          ![home_team].last_updated = t,
          ![home_team].home_elo = Smooth(@, new_home_elo),
          ![away_team].elo = new_away_elo,
          ![away_team].matches = @ + 1,
          ![away_team].last_updated = t,
          ![away_team].away_elo = Smooth(@, new_away_elo) ]

\* the three rounded probabilities of predict_outcome, in units of 1e-4
\* predict_outcome with the draw offset applied to the away side with the
\* wrong sign
OutcomeOf_offset(home_rating, away_rating, ha) ==
  LET elo_diff == (home_rating + ha) - away_rating
      home_win == Logistic(elo_diff - Pts(40))
      away_win == Logistic(-(elo_diff - Pts(40)))
      draw == Max(3 * (One \div 20),
                  Min(7 * (One \div 20), One - home_win - away_win))
      total == home_win + draw + away_win
  IN  [ home_win |-> Round4(FDiv(home_win, total)),
        draw |-> Round4(FDiv(draw, total)),
        away_win |-> Round4(FDiv(away_win, total)) ]

OutcomeOf(home_rating, away_rating, ha) ==
  LET elo_diff == (home_rating + ha) - away_rating
      home_win == Logistic(elo_diff - Pts(40))
      away_win == Logistic(-(elo_diff + Pts(40)))
      draw == Max(3 * (One \div 20),
                  Min(7 * (One \div 20), One - home_win - away_win))
      total == home_win + draw + away_win
  IN  [ home_win |-> Round4(FDiv(home_win, total)),
        draw |-> Round4(FDiv(draw, total)),
        away_win |-> Round4(FDiv(away_win, total)) ]

\* a decay step that adds the decay amount instead of removing it
DecayedElo_away(current_elo) ==
  LET d == current_elo - DEFAULT_ELO
      decay_amount == TDiv(d * 5 + (IF d >= 0 THEN 50 ELSE -50), 100)
  IN  current_elo + decay_amount

\* elo after one decay step: 5% of the distance to the default is removed
DecayedElo(current_elo) ==
  LET d == current_elo - DEFAULT_ELO
      decay_amount == TDiv(d * 5 + (IF d >= 0 THEN 50 ELSE -50), 100)
  IN  current_elo - decay_amount

\* (now - last_updated).days
DaysSince(last_updated, t) == t - last_updated

\* apply_rating_decay that also decays a team updated exactly days_inactive
\* days ago
apply_rating_decay_inclusive(R, days_inactive, t) ==
  [ team \in DOMAIN R |->
      IF DaysSince(R[team].last_updated, t) >= days_inactive
      THEN [ R[team] EXCEPT !.elo = DecayedElo(@) ]
      ELSE R[team] ]

\* the store after apply_rating_decay(days_inactive)
apply_rating_decay(R, days_inactive, t) ==
  [ team \in DOMAIN R |->
      IF DaysSince(R[team].last_updated, t) > days_inactive
      THEN [ R[team] EXCEPT !.elo = DecayedElo(@) ]
      ELSE R[team] ]

RECURSIVE SeedAll(_, _)
SeedAll(R, todo) ==
  IF todo = {} THEN R
  ELSE LET team == CHOOSE x \in todo : TRUE
       IN  SeedAll(set_elo(R, team, ALL_TEAM_RATINGS[team], NoLeague, 0),
                   todo \ {team})

\* get_elo_system(): the singleton, seeded by set_elo
get_elo_system == SeedAll(<< >>, DOMAIN ALL_TEAM_RATINGS)

\* the store after predict_outcome(home_team, away_team)
predict_outcome_store(R, home_team, away_team, t) ==
  get_elo(get_elo(R, home_team, t), away_team, t)

RECURSIVE simulate_league_store(_, _, _)
\* the store after the get_elo loop of simulate_league
simulate_league_store(R, current_standings, t) ==
  IF current_standings = << >> THEN R
  ELSE simulate_league_store(get_elo(R, Head(current_standings), t),
                             Tail(current_standings), t)

RECURSIVE knockout_teams_store(_, _, _)
\* the store after _team_input_to_knockout_team of every requested team
knockout_teams_store(R, teams, t) ==
  IF teams = << >> THEN R
  ELSE knockout_teams_store(
         IF Head(teams).elo # 0 THEN R ELSE get_elo(R, Head(teams).name, t),
         Tail(teams), t)

NoRet == [ kind |-> "none" ]

\* the elo of every stored team
Elos(R) == [ team \in DOMAIN R |-> R[team].elo ]

Init ==
  /\ ratings = get_elo_system
  /\ now = 0
  /\ lastOp = [ op |-> "init" ]
  /\ prev = Elos(ratings)
  /\ ret = NoRet
  /\ decayRun = 0
  /\ nOps = 0
  /\ calc = [ fn |-> "idle" ]
  /\ sim = [ fn |-> "idle" ]
  /\ lastSim = [ fn |-> "none" ]
  /\ nSims = 0
  /\ predictions = << >>
  /\ storage = << >>
  /\ trackOp = [ op |-> "init" ]
  /\ trackRet = [ kind |-> "none" ]
  /\ nTrack = 0
  /\ outcomes = << >>
  /\ workers = [ w \in Threads |-> [ pc |-> "idle" ] ]
  /\ base = << >>
  /\ round = << >>
  /\ limiter = [ pc |-> "none" ]
  /\ nAcquire = 0

\* bookkeeping of the call just made, for the properties below
Record(op) ==
  /\ lastOp' = op
  /\ prev' = Elos(ratings)
  /\ decayRun' = IF op.op = "decay" THEN decayRun + 1 ELSE 0
  /\ UNCHANGED << calcVars, simVars, trackVars, workerVars, limiterVars >>

Call(op) ==
  /\ nOps < MaxOps
  /\ nOps' = nOps + 1
  /\ Record(op)
  /\ UNCHANGED now

\* a day passes
Tick ==
  /\ now < MaxClock
  /\ now' = now + 1
  /\ ret' = NoRet
  /\ Record([ op |-> "tick" ])
  /\ UNCHANGED << ratings, nOps >>

Get ==
  \E team \in Teams :
    /\ ratings' = get_rating(ratings, team, NoLeague, now)
    /\ ret' = [ kind |-> "rating", value |-> ratings'[team] ]
    /\ Call([ op |-> "get", team |-> team ])

SetElo ==
  \E i \in SetInputs :
    /\ ratings' = set_elo(ratings, i[1], i[2], NoLeague, now)
    /\ ret' = NoRet
    /\ Call([ op |-> "set", team |-> i[1] ])

ApplyResult ==
  \E m \in MatchInputs :
    /\ ratings' = calculate_new_ratings(ratings, m[1], m[2], m[3], m[4],
                                        m[5], m[6], HOME_ADVANTAGE, now)
    /\ ret' = [ kind |-> "new_ratings",
                value |-> << ratings'[m[1]].elo, ratings'[m[2]].elo >> ]
    /\ Call([ op |-> "apply", home |-> m[1], away |-> m[2],
              league |-> m[5], importance |-> m[6] ])

PredictOutcome ==
  \E i \in PredictInputs :
    /\ ratings' = predict_outcome_store(ratings, i[1], i[2], now)
    /\ ret' = [ kind |-> "outcome",
                value |-> OutcomeOf(ratings'[i[1]].elo, ratings'[i[2]].elo,
                                    HOME_ADVANTAGE) ]
    /\ Call([ op |-> "predict", home |-> i[1], away |-> i[2] ])

Decay ==
  \E days_inactive \in DecayThresholds :
    /\ ratings' = apply_rating_decay(ratings, days_inactive, now)
    /\ ret' = NoRet
    /\ Call([ op |-> "decay", days_inactive |-> days_inactive ])

\* LeagueSimulator.simulate_league, as far as the rating store is concerned:
\* the Elo of every team of the standings is fetched before the trials
SimulateLeague ==
  \E current_standings \in StandingsInputs :
    /\ ratings' = simulate_league_store(ratings, current_standings, now)
    /\ ret' = [ kind |-> "team_elo",
                value |-> [ i \in 1..Len(current_standings) |->
                              ratings'[current_standings[i]].elo ] ]
    /\ Call([ op |-> "simulate_league" ])

\* the simulate_knockout request: the teams are converted, then simulated
SimulateKnockout ==
  \E teams \in KnockoutInputs :
    /\ ratings' = knockout_teams_store(ratings, teams, now)
    /\ ret' = [ kind |-> "team_elo",
                value |-> [ i \in 1..Len(teams) |->
                              IF teams[i].elo # 0 THEN teams[i].elo
                              ELSE ratings'[teams[i].name].elo ] ]
    /\ Call([ op |-> "simulate_knockout" ])

NextElo ==
  \/ Tick
  \/ Get
  \/ SetElo
  \/ ApplyResult
  \/ PredictOutcome
  \/ Decay
  \/ SimulateLeague
  \/ SimulateKnockout

Next == NextElo

Spec == Init /\ [][Next]_vars

----------------------------------------------------------------------------
(* The rating formulas on their own *)

CalcElos == { Pts(1000) + i * (Pts(250) + 12345) : i \in 0..GridSteps }
              \cup { DEFAULT_ELO }

CalcGoals == 0..MaxGoalsScored

CalcLeagues == { "Ligue 1", NoLeague }

CalcImportances == { 1000, 1500 }

CalcHomeAdvantages == { HOME_ADVANTAGE, 0 }

Idle == calc.fn = "idle"

\* calculate_new_ratings on a store that holds the two teams
CalcNewRatings ==
  \E home_elo \in CalcElos, away_elo \in CalcElos,
     home_goals \in CalcGoals, away_goals \in CalcGoals,
     league \in CalcLeagues, match_importance \in CalcImportances :
    LET R0 == set_elo(set_elo(<< >>, "Home", home_elo, NoLeague, 0),
                      "Away", away_elo, NoLeague, 0)
        R1 == calculate_new_ratings(R0, "Home", "Away", home_goals,
                                    away_goals, league, match_importance,
                                    HOME_ADVANTAGE, 0)
    IN  /\ Idle
        /\ calc' = [ fn |-> "calculate_new_ratings",
                     home_elo |-> home_elo, away_elo |-> away_elo,
                     home_goals |-> home_goals, away_goals |-> away_goals,
                     league |-> league, importance |-> match_importance,
                     out |-> << R1["Home"].elo, R1["Away"].elo >> ]
        /\ UNCHANGED << eloVars, simVars, trackVars, workerVars, limiterVars >>

\* predict_outcome for two stored ratings
CalcOutcome ==
  \E home_elo \in CalcElos, away_elo \in CalcElos,
     ha \in CalcHomeAdvantages :
    /\ Idle
    /\ calc' = [ fn |-> "predict_outcome",
                 home_elo |-> home_elo, away_elo |-> away_elo,
                 home_advantage |-> ha,
                 outcome |-> OutcomeOf(home_elo, away_elo, ha) ]
    /\ UNCHANGED << eloVars, simVars, trackVars, workerVars, limiterVars >>

Return ==
  /\ ~Idle
  /\ calc' = [ fn |-> "idle" ]
  /\ UNCHANGED << eloVars, simVars, trackVars, workerVars, limiterVars >>

NextCalc == CalcNewRatings \/ CalcOutcome \/ Return

SpecCalc == Init /\ [][NextCalc]_vars

----------------------------------------------------------------------------
(* PoissonModel and ScoreMatrix.  Goals per game, attack and defense
   strengths are counted in thousandths. *)

max_goals == 10

league_avg_goals == 1350

home_advantage == 250

\* e^(-2^(i-1)/1000), i = 1..14
ExpTab ==
  << 268167155, 267899122, 267363859, 266296539, 264174666, 259981506,
     251793800, 236183843, 207807152, 160872238, 96410055, 34626196,
     4466524, 74319 >>

RECURSIVE ExpBits(_, _, _)
ExpBits(mu, i, acc) ==
  IF i > Len(ExpTab) THEN acc
  ELSE ExpBits(mu \div 2, i + 1,
               IF mu % 2 = 1 THEN FMul(acc, ExpTab[i]) ELSE acc)

\* e^(-mu)
ExpNeg(mu) == ExpBits(mu, 1, One)

\* p * mu / k
PmfStep(p, mu, k) ==
  LET p1 == p \div Half
      p0 == p % Half
      D == 1000 * k
      A == p1 * mu
  IN  (A \div D) * Half + ((A % D) * Half + p0 * mu) \div D

RECURSIVE poisson_pmf(_, _)
\* << pmf(0, mu), ..., pmf(k, mu) >>
poisson_pmf(k, mu) ==
  IF k = 0 THEN << ExpNeg(mu) >>
  ELSE LET t == poisson_pmf(k - 1, mu)
       IN  Append(t, PmfStep(t[k], mu, k))

RECURSIVE SumSeq(_)
SumSeq(q) == IF q = << >> THEN 0 ELSE Head(q) + SumSeq(Tail(q))

Clamp(lo, hi, x) == Max(lo, Min(hi, x))

calculate_expected_goals(attack_strength, defense_weakness, avg, advantage) ==
  LET xG == (((attack_strength * defense_weakness) \div 1000) * avg)
              \div 1000 + advantage
  IN  Clamp(300, 5000, xG)

RECURSIVE Normalized(_, _)
\* probs / total
Normalized(probs, total) ==
  IF probs = << >> THEN << >>
  ELSE << FDiv(Head(probs), total) >> \o Normalized(Tail(probs), total)

\* goal_distribution without the division by probs.sum()
goal_distribution_truncated(expected_goals) ==
  poisson_pmf(max_goals, expected_goals)

\* probabilities[k + 1] is the probability of k goals
goal_distribution(expected_goals) ==
  LET probs == poisson_pmf(max_goals, expected_goals)
  IN  Normalized(probs, SumSeq(probs))

RECURSIVE Scaled(_, _)
\* p * probs
Scaled(p, probs) ==
  IF probs = << >> THEN << >>
  ELSE << FMul(p, Head(probs)) >> \o Scaled(p, Tail(probs))

RECURSIVE OuterProduct(_, _)
OuterProduct(home_probs, away_probs) ==
  IF home_probs = << >> THEN << >>
  ELSE << Scaled(Head(home_probs), away_probs) >>
         \o OuterProduct(Tail(home_probs), away_probs)

\* matrix[h + 1][a + 1] is the probability of the scoreline h-a
score_matrix(home_xG, away_xG) ==
  OuterProduct(goal_distribution(home_xG), goal_distribution(away_xG))

RECURSIVE SumRow(_, _, _)
\* sum of row[a + 1] for a in lo..hi
SumRow(row, lo, hi) ==
  IF lo > hi THEN 0 ELSE row[lo + 1] + SumRow(row, lo + 1, hi)

RECURSIVE HomeWinFrom(_, _)
HomeWinFrom(matrix, h) ==
  IF h > max_goals THEN 0
  ELSE SumRow(matrix[h + 1], 0, h - 1) + HomeWinFrom(matrix, h + 1)

home_win_prob(matrix) == HomeWinFrom(matrix, 0)

RECURSIVE DrawFrom(_, _)
DrawFrom(matrix, i) ==
  IF i > max_goals THEN 0
  ELSE matrix[i + 1][i + 1] + DrawFrom(matrix, i + 1)

draw_prob(matrix) == DrawFrom(matrix, 0)

RECURSIVE AwayWinFrom(_, _)
AwayWinFrom(matrix, h) ==
  IF h > max_goals THEN 0
  ELSE SumRow(matrix[h + 1], h + 1, max_goals) + AwayWinFrom(matrix, h + 1)

away_win_prob(matrix) == AwayWinFrom(matrix, 0)

NoScore == << -1, -1 >>

RECURSIVE FirstBestOfRow(_, _, _, _, _)
\* the first a, from a on, with the largest row[a + 1] among the scorelines
\* of row h that are not taken, or best
FirstBestOfRow(row, h, a, best, taken) ==
  IF a > max_goals THEN best
  ELSE FirstBestOfRow(row, h, a + 1,
                      IF /\ << h, a >> \notin taken
                         /\ (best = -1 \/ row[a + 1] > row[best + 1])
                      THEN a ELSE best,
                      taken)

RECURSIVE FirstBest(_, _, _, _)
\* the scoreline that is not taken with the largest probability; of several,
\* the first in the order of the two nested loops over h and a
FirstBest(matrix, h, best, taken) ==
  IF h > max_goals THEN best
  ELSE LET a == FirstBestOfRow(matrix[h + 1], h, 0, -1, taken)
       IN  FirstBest(matrix, h + 1,
                     IF /\ a # -1
                        /\ \/ best = NoScore
                           \/ matrix[h + 1][a + 1]
                                > matrix[best[1] + 1][best[2] + 1]
                     THEN << h, a >> ELSE best,
                     taken)

RECURSIVE SortedPrefix(_, _, _)
\* the first n entries (h, a, prob) of the list of all scorelines after a
\* stable sort by descending probability
SortedPrefix(matrix, taken, n) ==
  LET best == FirstBest(matrix, 0, NoScore, taken)
  IN  IF n = 0 \/ best = NoScore THEN << >>
      ELSE << << best[1], best[2], matrix[best[1] + 1][best[2] + 1] >> >>
             \o SortedPrefix(matrix, taken \cup { best }, n - 1)

\* scores.sort(key=prob, reverse=True); scores[:n]
most_likely_scores(matrix, n) == SortedPrefix(matrix, {}, n)

\* 1 / x
Recip(x) == 1000000 \div x

predict_match(home_attack, home_defense, away_attack, away_defense, avg, advantage) ==
  LET home_xG == calculate_expected_goals(
                   home_attack,
                   IF away_defense > 0 THEN Recip(away_defense) ELSE 1000,
                   avg, advantage)
      away_xG == calculate_expected_goals(
                   away_attack,
                   IF home_defense > 0 THEN Recip(home_defense) ELSE 1000,
                   avg, 0)
      matrix == score_matrix(home_xG, away_xG)
      home_win == home_win_prob(matrix)
      draw == draw_prob(matrix)
      away_win == away_win_prob(matrix)
      total == home_win + draw + away_win
  IN  [ outcome |-> [ home_win |-> Round4(FDiv(home_win, total)),
                      draw |-> Round4(FDiv(draw, total)),
                      away_win |-> Round4(FDiv(away_win, total)) ],
        home_xG |-> home_xG,
        away_xG |-> away_xG,
        scorelines |-> most_likely_scores(matrix, 5) ]

\* (attack, defense) of a team
elo_to_attack_defense(elo, goals_per_game, conceded_per_game) ==
  LET elo_factor == TDiv(elo - DEFAULT_ELO, 400 * (Unit \div 1000))
      attack == TDiv(((goals_per_game * 1000) \div league_avg_goals)
                       * (1000 + TDiv(elo_factor * 2, 10)), 1000)
      defense == IF conceded_per_game > 0
                 THEN (league_avg_goals * 1000) \div conceded_per_game
                 ELSE 1500
      adjusted == TDiv(defense * (1000 + TDiv(elo_factor, 10)), 1000)
  IN  << Clamp(500, 2000, attack), Clamp(500, 2000, adjusted) >>

NoFeatures == << >>

\* round(b / total, 4)
RoundRatio4(b, total) == (10000 * b + total \div 2) \div total

\* HybridPredictionModel.predict; ml_probs is the triple predict_proba
\* returns, or NoFeatures when there is no outcome model or no features
predict(home_elo, away_elo, home_goals_pg, home_conceded_pg, away_goals_pg, away_conceded_pg, ml_probs) ==
  LET home == elo_to_attack_defense(home_elo, home_goals_pg, home_conceded_pg)
      away == elo_to_attack_defense(away_elo, away_goals_pg, away_conceded_pg)
      poisson_pred == predict_match(home[1], home[2], away[1], away[2],
                                    league_avg_goals, home_advantage)
      poisson_probs == << poisson_pred.outcome.home_win,
                          poisson_pred.outcome.draw,
                          poisson_pred.outcome.away_win >>
      blended == [ i \in 1..3 |-> 6 * ml_probs[i] + 4 * poisson_probs[i] ]
      total == SumSeq(blended)
  IN  IF ml_probs = NoFeatures THEN poisson_pred
      ELSE [ poisson_pred EXCEPT
               !.outcome = [ home_win |-> RoundRatio4(blended[1], total),
                             draw |-> RoundRatio4(blended[2], total),
                             away_win |-> RoundRatio4(blended[3], total) ] ]

\* expected goals handed to score_matrix
XGs == { 300, 1000, 1350, 2000, 5000 }

\* numbers of scorelines asked for
TopNs == { 5, 8 }

Strengths == { 500, 1000, 2000 }

HybridElos == { DEFAULT_ELO, Pts(1920) }

GoalsPerGame == { 1350, 2100 }

ConcededPerGame == { 0, 900 }

\* predict_proba results, in units of 1/10000
MlProbs == { << 5000, 3000, 2000 >>, << 3333, 3333, 3334 >> }

CalcScoreMatrix ==
  \E home_xG \in XGs, away_xG \in XGs :
    /\ Idle
    /\ calc' = [ fn |-> "score_matrix",
                 home_xG |-> home_xG, away_xG |-> away_xG,
                 matrix |-> score_matrix(home_xG, away_xG) ]
    /\ UNCHANGED << eloVars, simVars, trackVars, workerVars, limiterVars >>

CalcMostLikelyScores ==
  \E home_xG \in XGs, away_xG \in XGs, n \in TopNs :
    /\ Idle
    /\ calc' = [ fn |-> "most_likely_scores",
                 home_xG |-> home_xG, away_xG |-> away_xG, n |-> n,
                 scores |-> most_likely_scores(
                              score_matrix(home_xG, away_xG), n) ]
    /\ UNCHANGED << eloVars, simVars, trackVars, workerVars, limiterVars >>

CalcPredictMatch ==
  \E home_attack \in Strengths, home_defense \in Strengths,
     away_attack \in Strengths, away_defense \in Strengths :
    LET pred == predict_match(home_attack, home_defense, away_attack,
                              away_defense, league_avg_goals, home_advantage)
    IN  /\ Idle
        /\ calc' = [ fn |-> "predict_match",
                     home_attack |-> home_attack,
                     home_defense |-> home_defense,
                     away_attack |-> away_attack,
                     away_defense |-> away_defense,
                     outcome |-> pred.outcome,
                     scorelines |-> pred.scorelines ]
        /\ UNCHANGED << eloVars, simVars, trackVars, workerVars, limiterVars >>

CalcHybridPredict ==
  \E home_elo \in HybridElos, away_elo \in HybridElos,
     home_goals_pg \in GoalsPerGame, away_goals_pg \in GoalsPerGame,
     home_conceded_pg \in ConcededPerGame,
     away_conceded_pg \in ConcededPerGame,
     ml_probs \in MlProbs \cup { NoFeatures } :
    LET pred == predict(home_elo, away_elo, home_goals_pg, home_conceded_pg,
                        away_goals_pg, away_conceded_pg, ml_probs)
    IN  /\ Idle
        /\ calc' = [ fn |-> "predict",
                     home_elo |-> home_elo, away_elo |-> away_elo,
                     ml_probs |-> ml_probs,
                     outcome |-> pred.outcome ]
        /\ UNCHANGED << eloVars, simVars, trackVars, workerVars, limiterVars >>

NextGoals ==
  \/ CalcOutcome
  \/ CalcScoreMatrix
  \/ CalcMostLikelyScores
  \/ CalcPredictMatch
  \/ CalcHybridPredict
  \/ Return

SpecGoals == Init /\ [][NextGoals]_vars

----------------------------------------------------------------------------
(* Properties of the rating store *)

\* C1: after any sequence of get, set, applyResult and decay calls every
\* stored rating lies in [1000, 2500].
RatingsClamped ==
  \A team \in DOMAIN ratings :
    /\ ratings[team].elo >= Pts(1000)
    /\ ratings[team].elo <= Pts(2500)

\* C2: two spellings of a team name that differ only in letter case share
\* one rating entry: get returns the entry stored under the other spelling
\* and no second entry is created.
CaseNormalizedKeys ==
  LET LowerCase(team) == IF team = "Arsenal" THEN "arsenal" ELSE team
  IN  /\ \A t1 \in DOMAIN ratings, t2 \in DOMAIN ratings :
           LowerCase(t1) = LowerCase(t2) => t1 = t2
      /\ lastOp.op = "get" =>
           \A t2 \in DOMAIN ratings :
             LowerCase(t2) = LowerCase(lastOp.team) =>
               ratings[t2] = ret.value

\* C3: with league coefficient 1.0 and importance 1.0 the change of the
\* home rating is the negative of the change of the away rating, for every
\* scoreline and every pair of starting ratings (to 1e-5 of a rating point).
ZeroSum ==
  ( /\ calc.fn = "calculate_new_ratings"
    /\ LeagueCoef(calc.league) = 100
    /\ calc.importance = 1000 )
  => calc.out[1] - calc.home_elo = -(calc.out[2] - calc.away_elo)

\* an upset by four goals moved both ratings
ZeroSumWitness ==
  /\ calc.fn = "calculate_new_ratings"
  /\ LeagueCoef(calc.league) = 100
  /\ calc.importance = 1000
  /\ calc.home_elo > calc.away_elo
  /\ calc.away_goals = calc.home_goals + 4
  /\ calc.out[1] < calc.home_elo
  /\ calc.out[2] > calc.away_elo

\* C5 as stated: two teams rated 1500 with no home advantage give draw as
\* the single highest probability and home_win = away_win.
DrawHighestWhenEven ==
  ( /\ calc.fn = "predict_outcome"
    /\ calc.home_elo = DEFAULT_ELO
    /\ calc.away_elo = DEFAULT_ELO
    /\ calc.home_advantage = 0 )
  => /\ calc.outcome.home_win = calc.outcome.away_win
     /\ calc.outcome.draw > calc.outcome.home_win
     /\ calc.outcome.draw > calc.outcome.away_win

\* C5 amended: two teams rated 1500 with no home advantage give
\* home_win = away_win, and draw is the single lowest probability.
DrawLowestWhenEven ==
  ( /\ calc.fn = "predict_outcome"
    /\ calc.home_elo = DEFAULT_ELO
    /\ calc.away_elo = DEFAULT_ELO
    /\ calc.home_advantage = 0 )
  => /\ calc.outcome.home_win = calc.outcome.away_win
     /\ calc.outcome.draw < calc.outcome.home_win
     /\ calc.outcome.draw < calc.outcome.away_win

EvenMatchPredicted ==
  /\ calc.fn = "predict_outcome"
  /\ calc.home_elo = DEFAULT_ELO
  /\ calc.away_elo = DEFAULT_ELO
  /\ calc.home_advantage = 0
  /\ calc.outcome.draw > 0

\* the team was last updated more than days_inactive days before t
Inactive(R, team, days_inactive, t) ==
  t - R[team].last_updated > days_inactive

\* this step is the second of two decay calls with the same threshold
SecondDecay ==
  /\ lastOp.op = "decay"
  /\ lastOp'.op = "decay"
  /\ lastOp'.days_inactive = lastOp.days_inactive
  /\ nOps' = nOps + 1

\* C6 as stated: a second decay call in immediate succession leaves every
\* rating as the first call left it.
DecayIdempotent ==
  [][ SecondDecay => Elos(ratings') = Elos(ratings) ]_vars

\* C6 amended: a second decay call in immediate succession leaves the rating
\* of a team updated within the threshold, and a rating of 1500, as the
\* first call left it, and takes from every other rating 5% of the distance
\* to 1500 that the first call left.
DecayTwice ==
  [][ SecondDecay =>
        \A team \in DOMAIN ratings :
          LET e1 == ratings[team].elo
              e2 == ratings'[team].elo
          IN  IF \/ ~Inactive(ratings, team, lastOp'.days_inactive, now)
                 \/ e1 = DEFAULT_ELO
              THEN e2 = e1
              ELSE Abs(20 * (e1 - e2) - (e1 - DEFAULT_ELO)) <= 10 ]_vars

\* two decay calls in a row, the second of which raised a rating below 1500
DecayedTwice ==
  /\ decayRun >= 2
  /\ \E team \in DOMAIN ratings :
       ratings[team].elo < DEFAULT_ELO /\ ratings[team].elo > prev[team]

\* C7: a decay call keeps every inactive rating on its side of 1500 and no
\* farther from it, leaves the rating of a team updated within the threshold
\* unchanged, and the second of two successive calls changes a rating that
\* differs from 1500 by strictly less than the first.
DecaySaturates ==
  [][ ( lastOp'.op = "decay" /\ nOps' = nOps + 1 ) =>
        \A team \in DOMAIN ratings :
          LET e1 == ratings[team].elo
              e2 == ratings'[team].elo
          IN  IF Inactive(ratings, team, lastOp'.days_inactive, now)
              THEN /\ (e1 >= DEFAULT_ELO) => (e2 >= DEFAULT_ELO)
                   /\ (e1 <= DEFAULT_ELO) => (e2 <= DEFAULT_ELO)
                   /\ Abs(e2 - DEFAULT_ELO) <= Abs(e1 - DEFAULT_ELO)
                   /\ ( SecondDecay /\ prev[team] # DEFAULT_ELO ) =>
                        Abs(e2 - e1) < Abs(e1 - prev[team])
              ELSE e2 = e1 ]_vars

\* the second of two decay calls in a row lowered a rating above 1500 while
\* a team updated within the threshold kept a rating that is not 1500
DecaySaturatesWitness ==
  /\ decayRun >= 2
  /\ \E team \in DOMAIN ratings :
       ratings[team].elo > DEFAULT_ELO /\ ratings[team].elo < prev[team]
  /\ \E team \in DOMAIN ratings :
       /\ ~Inactive(ratings, team, lastOp.days_inactive, now)
       /\ ratings[team].elo # DEFAULT_ELO
       /\ ratings[team].elo = prev[team]

----------------------------------------------------------------------------
(* Properties of the predictions *)

\* C4: every outcome prediction (predict_outcome, predict_match, predict
\* with or without classifier probabilities) has home_win + draw + away_win
\* within 1e-6 of 1, and each of the three in [0, 1].
OutcomeSumsToOne ==
  "outcome" \in DOMAIN calc =>
    LET o == calc.outcome
    IN  /\ 100 * Abs(o.home_win + o.draw + o.away_win - 10000) <= 1
        /\ \A p \in { o.home_win, o.draw, o.away_win } : 0 <= p /\ p <= 10000

\* C9: the matrix built by score_matrix from two expected-goals values has
\* no negative cell, and its cells sum to 1 within 1e-6.
ScoreMatrixNormalized ==
  calc.fn = "score_matrix" =>
    /\ \A h \in 0..max_goals, a \in 0..max_goals :
         calc.matrix[h + 1][a + 1] >= 0
    /\ Abs(home_win_prob(calc.matrix) + draw_prob(calc.matrix)
             + away_win_prob(calc.matrix) - One) <= One \div 1000000

\* a matrix for 5.0 and 0.3 expected goals, where the eleven Poisson terms of
\* the home side sum to less than 1 - 1e-6
ScoreMatrixBuilt ==
  /\ calc.fn = "score_matrix"
  /\ calc.home_xG = 5000
  /\ calc.away_xG = 300
  /\ SumSeq(poisson_pmf(max_goals, calc.home_xG)) < One - One \div 1000000
  /\ calc.matrix[6][1] > 0

\* C10: most_likely_scores(n) returns n scorelines in non-increasing order
\* of probability, and of two scorelines of equal probability the one with
\* the lower total number of goals comes first.
TopScoresOrdered ==
  calc.fn = "most_likely_scores" =>
    /\ Len(calc.scores) = calc.n
    /\ \A i \in 1..(Len(calc.scores) - 1) :
         LET s == calc.scores[i]
             t == calc.scores[i + 1]
         IN  /\ s[3] >= t[3]
             /\ s[3] = t[3] => s[1] + s[2] <= t[1] + t[2]

----------------------------------------------------------------------------
(* LeagueSimulator.  A draw of np.random.poisson is a choice among the goal
   counts up to MaxSimGoals. *)

\* rows of current_standings; the last list names Lyon twice
LeagueStandings ==
  { << >>,
    << [ name |-> "Arsenal", points |-> 10, gd |-> 5 ],
       [ name |-> "Porto", points |-> 10, gd |-> 5 ],
       [ name |-> "arsenal", points |-> 8, gd |-> 6 ] >>,
    << [ name |-> "Lyon", points |-> 7, gd |-> 2 ],
       [ name |-> "Porto", points |-> 10, gd |-> 5 ],
       [ name |-> "Lyon", points |-> 10, gd |-> 4 ] >> }

\* remaining_fixtures: (home_team, away_team); "" is a missing name, "Lyon"
\* is not in the first standings, and the last fixture names one team twice
LeagueFixtures ==
  { << >>,
    << << "arsenal", "Porto" >> >>,
    << << "Arsenal", "Lyon" >>, << "Porto", "Arsenal" >> >>,
    << << "", "Porto" >> >>,
    << << "Porto", "Porto" >> >> }

\* (home_xG, away_xG) of _simulate_match
LeagueXG(home_elo, away_elo) ==
  LET elo_diff == TDiv(home_elo - away_elo, 400 * (Unit \div 1000))
      home_xG == 1350 + TDiv(1350 * 3 * elo_diff, 10000) + home_advantage
      away_xG == 1350 - TDiv(1350 * 3 * elo_diff, 10000)
  IN  << Clamp(500, 4000, home_xG), Clamp(300, 3500, away_xG) >>

\* the values np.random.poisson(xG) can return
PoissonDraws(xG) == IF xG > 0 THEN 0..MaxSimGoals ELSE { 0 }

\* the (home_goals, away_goals) _simulate_match can return
simulate_match(home_elo, away_elo) ==
  PoissonDraws(LeagueXG(home_elo, away_elo)[1])
    \X PoissonDraws(LeagueXG(home_elo, away_elo)[2])

\* _calculate_points with two points for a win
calculate_points_two(home_goals, away_goals) ==
  IF home_goals > away_goals THEN << 2, 0 >>
  ELSE IF home_goals < away_goals THEN << 0, 2 >>
  ELSE << 1, 1 >>

\* the (home_pts, away_pts) of _calculate_points
calculate_points(home_goals, away_goals) ==
  IF home_goals > away_goals THEN << 3, 0 >>
  ELSE IF home_goals < away_goals THEN << 0, 3 >>
  ELSE << 1, 1 >>

RECURSIVE DictKeys(_)
\* the keys of a dict filled in the order of names: a name met again keeps
\* its first place
DictKeys(names) ==
  IF names = << >> THEN << >>
  ELSE LET front == DictKeys(SubSeq(names, 1, Len(names) - 1))
           last == names[Len(names)]
       IN  IF \E k \in DOMAIN front : front[k] = last THEN front
           ELSE Append(front, last)

\* team_data, in the order of its keys: a row whose name was met before
\* replaces the entry of that name
TeamData(current_standings, R) ==
  LET keys == DictKeys([ i \in DOMAIN current_standings |->
                          current_standings[i].name ])
  IN  [ k \in DOMAIN keys |->
          LET row == current_standings[
                       CHOOSE i \in DOMAIN current_standings :
                         /\ current_standings[i].name = keys[k]
                         /\ \A j \in (i + 1)..Len(current_standings) :
                              current_standings[j].name # keys[k]]
          IN  [ name |-> row.name, points |-> row.points, gd |-> row.gd,
                elo |-> R[row.name].elo ] ]

TeamNames(team_data) == { team_data[i].name : i \in DOMAIN team_data }

TeamRow(team_data, team) ==
  team_data[CHOOSE i \in DOMAIN team_data : team_data[i].name = team]

\* sim_points at the start of a trial, without the current points
TrialPoints_zero(team_data) ==
  [ team \in TeamNames(team_data) |-> 0 ]

\* sim_points at the start of a trial
TrialPoints(team_data) ==
  [ team \in TeamNames(team_data) |-> TeamRow(team_data, team).points ]

\* sim_gd at the start of a trial
TrialGd(team_data) ==
  [ team \in TeamNames(team_data) |-> TeamRow(team_data, team).gd ]

\* the key of a is greater than that of b, by the points alone
KeyGreater_points(a, b) == a[1] > b[1]

\* the key (points, gd) of a is greater than that of b
KeyGreater(a, b) == a[1] > b[1] \/ (a[1] = b[1] /\ a[2] > b[2])

RECURSIVE SortedTeams(_, _, _)
\* sorted(teams, key=(sim_points, sim_gd), reverse=True): a stable sort
SortedTeams(teams, sim_points, sim_gd) ==
  IF teams = << >> THEN << >>
  ELSE LET Key(i) == << sim_points[teams[i]], sim_gd[teams[i]] >>
           first == CHOOSE i \in DOMAIN teams :
                      /\ \A j \in DOMAIN teams : ~KeyGreater(Key(j), Key(i))
                      /\ \A j \in 1..(i - 1) : KeyGreater(Key(i), Key(j))
       IN  << teams[first] >>
             \o SortedTeams(SubSeq(teams, 1, first - 1)
                              \o SubSeq(teams, first + 1, Len(teams)),
                            sim_points, sim_gd)

\* position of the team in sorted_teams, counted from 0
PositionOf_from_zero(sorted_teams, team) ==
  (CHOOSE pos \in DOMAIN sorted_teams : sorted_teams[pos] = team) - 1

\* position of the team in sorted_teams, counted from 1
PositionOf(sorted_teams, team) ==
  CHOOSE pos \in DOMAIN sorted_teams : sorted_teams[pos] = team

\* number of entries of positions equal to pos
CountOf(positions, pos) ==
  Cardinality({ i \in DOMAIN positions : positions[i] = pos })

\* a SimulatedStanding; the averages are kept as sums over the trials
Standing(row, positions, points) ==
  [ team_name |-> row.name,
    current_points |-> row.points,
    position_sum |-> SumSeq(positions),
    points_sum |-> SumSeq(points),
    trials |-> Len(positions),
    title_probability |-> RoundRatio4(CountOf(positions, 1), Len(positions)),
    position_distribution |->
      [ pos \in { positions[i] : i \in DOMAIN positions } |->
          RoundRatio4(CountOf(positions, pos), Len(positions)) ] ]

RECURSIVE SortedByPosition(_)
\* standings.sort(key=avg_final_position): a stable sort
SortedByPosition(standings) ==
  IF standings = << >> THEN << >>
  ELSE LET first == CHOOSE i \in DOMAIN standings :
                      /\ \A j \in DOMAIN standings :
                           standings[j].position_sum
                             >= standings[i].position_sum
                      /\ \A j \in 1..(i - 1) :
                           standings[j].position_sum
                             > standings[i].position_sum
       IN  << standings[first] >>
             \o SortedByPosition(SubSeq(standings, 1, first - 1)
                                   \o SubSeq(standings, first + 1,
                                             Len(standings)))

\* max(standings, key=title_probability): the first of the largest
Champion(standings) ==
  standings[CHOOSE i \in DOMAIN standings :
              /\ \A j \in DOMAIN standings :
                   standings[j].title_probability
                     <= standings[i].title_probability
              /\ \A j \in 1..(i - 1) :
                   standings[j].title_probability
                     < standings[i].title_probability]

empty_result ==
  [ n_simulations |-> 0, remaining_matches |-> 0, standings |-> << >>,
    most_likely_champion |-> "Unknown", champion_probability |-> 0 ]

LeagueResult(team_data, remaining_fixtures, n_simulations, final_positions, final_points) ==
  LET standings == SortedByPosition(
                     [ i \in DOMAIN team_data |->
                         Standing(team_data[i],
                                  final_positions[team_data[i].name],
                                  final_points[team_data[i].name]) ])
  IN  [ n_simulations |-> n_simulations,
        remaining_matches |-> Len(remaining_fixtures),
        standings |-> standings,
        most_likely_champion |-> Champion(standings).team_name,
        champion_probability |-> Champion(standings).title_probability ]

\* the names of the rows, in order
RowNames(current_standings) ==
  [ i \in DOMAIN current_standings |-> current_standings[i].name ]

\* the trial counts a LeagueSimulator is constructed with
TrialCounts == 1..MaxTrials

\* simulate_league up to the first trial: the empty answer, or team_data with
\* the ratings read through get_elo
LeagueStart ==
  \E current_standings \in LeagueStandings, remaining_fixtures \in LeagueFixtures, n_simulations \in TrialCounts :
    /\ sim.fn = "idle"
    /\ nSims < MaxSims
    /\ nSims' = nSims + 1
    /\ ratings' = simulate_league_store(ratings, RowNames(current_standings), now)
    /\ sim' = IF current_standings = << >>
              THEN [ fn |-> "simulate_league", pc |-> "done",
                     current_standings |-> current_standings,
                     remaining_fixtures |-> remaining_fixtures,
                     n_simulations |-> n_simulations,
                     team_data |-> << >>,
                     result |-> empty_result ]
              ELSE LET team_data == TeamData(current_standings, ratings')
                   IN  [ fn |-> "simulate_league", pc |-> "fixtures",
                         current_standings |-> current_standings,
                         remaining_fixtures |-> remaining_fixtures,
                         n_simulations |-> n_simulations,
                         team_data |-> team_data,
                         trial |-> 0,
                         fixture |-> 1,
                         score |-> << >>,
                         sorted_teams |-> << >>,
                         sim_points |-> TrialPoints(team_data),
                         sim_gd |-> TrialGd(team_data),
                         final_positions |->
                           [ team \in TeamNames(team_data) |-> << >> ],
                         final_points |->
                           [ team \in TeamNames(team_data) |-> << >> ] ]
    /\ UNCHANGED << now, lastOp, prev, ret, decayRun, nOps, lastSim >>
    /\ UNCHANGED << calcVars, trackVars, workerVars, limiterVars >>

\* one pass of the loop over remaining_fixtures: the fixture is skipped, or
\* simulated and added to sim_points and sim_gd; score is the result of the
\* fixture just simulated
LeagueFixture ==
  /\ sim.fn = "simulate_league"
  /\ sim.pc = "fixtures"
  /\ sim.fixture <= Len(sim.remaining_fixtures)
  /\ LET home_team == sim.remaining_fixtures[sim.fixture][1]
         away_team == sim.remaining_fixtures[sim.fixture][2]
         names == TeamNames(sim.team_data)
     IN  IF home_team = "" \/ away_team = ""
            \/ home_team \notin names \/ away_team \notin names
         THEN sim' = [ sim EXCEPT !.fixture = @ + 1, !.score = << >> ]
         ELSE \E goals \in simulate_match(
                             TeamRow(sim.team_data, home_team).elo,
                             TeamRow(sim.team_data, away_team).elo) :
                LET points == calculate_points(goals[1], goals[2])
                    diff == goals[1] - goals[2]
                    gd == [ sim.sim_gd EXCEPT ![home_team] = @ + diff ]
                IN  sim' = [ sim EXCEPT
                      !.fixture = @ + 1,
                      !.score = << goals >>,
                      !.sim_points =
                        [ [ @ EXCEPT ![home_team] = @ + points[1] ]
                            EXCEPT ![away_team] = @ + points[2] ],
                      !.sim_gd = [ gd EXCEPT ![away_team] = @ - diff ] ]
  /\ UNCHANGED << eloVars, calcVars, trackVars, workerVars, limiterVars,
               lastSim, nSims >>

\* the end of a trial: the teams are ranked and each final position and
\* final points recorded; the next trial starts from the current points
LeagueRank ==
  /\ sim.fn = "simulate_league"
  /\ sim.pc = "fixtures"
  /\ sim.fixture > Len(sim.remaining_fixtures)
  /\ LET sorted_teams == SortedTeams(RowNames(sim.team_data),
                                     sim.sim_points, sim.sim_gd)
     IN  sim' = [ sim EXCEPT
           !.pc = IF sim.trial + 1 = sim.n_simulations
                  THEN "statistics" ELSE "fixtures",
           !.trial = @ + 1,
           !.fixture = 1,
           !.score = << >>,
           !.sorted_teams = sorted_teams,
           !.final_positions =
             [ team \in DOMAIN @ |->
                 Append(@[team], PositionOf(sorted_teams, team)) ],
           !.final_points =
             [ team \in DOMAIN @ |-> Append(@[team], sim.sim_points[team]) ],
           !.sim_points = TrialPoints(sim.team_data),
           !.sim_gd = TrialGd(sim.team_data) ]
  /\ UNCHANGED << eloVars, calcVars, trackVars, workerVars, limiterVars,
               lastSim, nSims >>

\* the statistics over the trials and the result
LeagueStatistics ==
  /\ sim.fn = "simulate_league"
  /\ sim.pc = "statistics"
  /\ sim' = [ fn |-> "simulate_league", pc |-> "done",
              current_standings |-> sim.current_standings,
              remaining_fixtures |-> sim.remaining_fixtures,
              n_simulations |-> sim.n_simulations,
              team_data |-> sim.team_data,
              result |-> LeagueResult(sim.team_data, sim.remaining_fixtures,
                                      sim.n_simulations, sim.final_positions,
                                      sim.final_points) ]
  /\ UNCHANGED << eloVars, calcVars, trackVars, workerVars, limiterVars,
               lastSim, nSims >>

\* the result is handed to the caller
LeagueReturn ==
  /\ sim.fn = "simulate_league"
  /\ sim.pc = "done"
  /\ lastSim' = [ sim EXCEPT !.pc = "returned" ]
  /\ sim' = [ fn |-> "idle" ]
  /\ UNCHANGED << eloVars, calcVars, trackVars, workerVars, limiterVars,
               nSims >>

NextLeague ==
  \/ LeagueStart
  \/ LeagueFixture
  \/ LeagueRank
  \/ LeagueStatistics
  \/ LeagueReturn

SpecLeague == Init /\ [][NextLeague]_vars

----------------------------------------------------------------------------
(* KnockoutSimulator.  random.shuffle is a choice among the rotations of the
   list by up to MaxShift places, with or without its last two entries
   exchanged; a tie is won by either side, by the second-named side at most
   MaxUpsets times in a trial. *)

\* the KnockoutTeam list of the champions-league route without a body
CL_TEAMS_2025_26 ==
  <<
    [ name |-> "Real Madrid", elo |-> Pts(2050), group_position |-> 1,
      group |-> "A", country |-> "Spain" ],
    [ name |-> "Bayern Munich", elo |-> Pts(2020), group_position |-> 1,
      group |-> "B", country |-> "Germany" ],
    [ name |-> "Manchester City", elo |-> Pts(2080), group_position |-> 1,
      group |-> "C", country |-> "England" ],
    [ name |-> "Barcelona", elo |-> Pts(1980), group_position |-> 1,
      group |-> "D", country |-> "Spain" ],
    [ name |-> "Arsenal", elo |-> Pts(1960), group_position |-> 1,
      group |-> "E", country |-> "England" ],
    [ name |-> "Inter", elo |-> Pts(1920), group_position |-> 1,
      group |-> "F", country |-> "Italy" ],
    [ name |-> "Paris Saint-Germain", elo |-> Pts(1950), group_position |-> 1,
      group |-> "G", country |-> "France" ],
    [ name |-> "Liverpool", elo |-> Pts(1970), group_position |-> 1,
      group |-> "H", country |-> "England" ],
    [ name |-> "Atletico Madrid", elo |-> Pts(1900), group_position |-> 2,
      group |-> "A", country |-> "Spain" ],
    [ name |-> "Dortmund", elo |-> Pts(1880), group_position |-> 2,
      group |-> "B", country |-> "Germany" ],
    [ name |-> "Napoli", elo |-> Pts(1870), group_position |-> 2,
      group |-> "C", country |-> "Italy" ],
    [ name |-> "Porto", elo |-> Pts(1820), group_position |-> 2,
      group |-> "D", country |-> "Portugal" ],
    [ name |-> "PSV", elo |-> Pts(1800), group_position |-> 2,
      group |-> "E", country |-> "Netherlands" ],
    [ name |-> "Benfica", elo |-> Pts(1840), group_position |-> 2,
      group |-> "F", country |-> "Portugal" ],
    [ name |-> "RB Leipzig", elo |-> Pts(1860), group_position |-> 2,
      group |-> "G", country |-> "Germany" ],
    [ name |-> "Chelsea", elo |-> Pts(1890), group_position |-> 2,
      group |-> "H", country |-> "England" ]
  >>

\* the KnockoutTeam list of the champions-league route for a body of names:
\* every team has the default group_position, group and country
CustomTeams ==
  [ idx \in 1..16 |->
      [ name |-> CL_TEAMS_2025_26[idx].name,
        elo |-> Pts(1800 + 100 * (17 - idx)),
        group_position |-> 1, group |-> "", country |-> "" ] ]

\* teams given without a country
WithoutCountry(teams) ==
  [ idx \in DOMAIN teams |-> [ teams[idx] EXCEPT !.country = "" ] ]

CupTeamLists ==
  { CL_TEAMS_2025_26,
    WithoutCountry(CL_TEAMS_2025_26),
    CustomTeams,
    Append(CL_TEAMS_2025_26,
           [ name |-> "Porto B", elo |-> Pts(1500), group_position |-> 2,
             group |-> "D", country |-> "Portugal" ]),
    SubSeq(CL_TEAMS_2025_26, 1, 15),
    SubSeq(CL_TEAMS_2025_26, 1, 12),
    SubSeq(CL_TEAMS_2025_26, 1, 8),
    SubSeq(CL_TEAMS_2025_26, 1, 7) }

CupModes ==
  { "simulate_champions_league", "simulate_europa_league",
    "simulate_world_cup" }

\* the calls: (method, teams, n_simulations of the simulator)
CupInputs ==
  (CupModes \X CupTeamLists \X { 1 })
    \cup { << "simulate_world_cup", CL_TEAMS_2025_26, 2 >> }

\* the check of simulate_champions_league and simulate_world_cup passes a
\* list that is too long
NotSixteen_short(teams) == Len(teams) < 16

\* the check of simulate_champions_league and simulate_world_cup
NotSixteen(teams) == Len(teams) # 16

\* the method raises ValueError for the list
Rejected(fn, teams) ==
  IF fn = "simulate_europa_league" THEN Len(teams) < 8 ELSE NotSixteen(teams)

TeamNamed(teams, name) ==
  teams[CHOOSE idx \in DOMAIN teams : teams[idx].name = name]

NamesOf(teams) == [ idx \in DOMAIN teams |-> teams[idx].name ]

Rotated(seq, k) ==
  [ idx \in DOMAIN seq |-> seq[((idx - 1 + k) % Len(seq)) + 1] ]

LastTwoExchanged(seq) ==
  [ idx \in DOMAIN seq |->
      IF idx = Len(seq) - 1 THEN seq[Len(seq)]
      ELSE IF idx = Len(seq) THEN seq[Len(seq) - 1]
      ELSE seq[idx] ]

Reversed(seq) == [ idx \in DOMAIN seq |-> seq[Len(seq) + 1 - idx] ]

\* orders random.shuffle can leave the list in
Shuffles(seq) ==
  IF Len(seq) < 2 THEN { seq }
  ELSE { Rotated(seq, k) : k \in 0..MaxShift }
         \cup { LastTwoExchanged(Rotated(seq, k)) : k \in 0..MaxShift }
         \cup { Reversed(seq) }

\* (home_xG, away_xG) of _simulate_match
KnockoutXG(home_elo, away_elo, is_neutral) ==
  LET elo_diff == TDiv(home_elo - away_elo, 400 * (Unit \div 1000))
      home_xG == 1350 + TDiv(1350 * elo_diff, 4000)
                   + (IF is_neutral THEN 0 ELSE 300)
      away_xG == 1350 - TDiv(1350 * elo_diff, 4000)
  IN  << Clamp(500, 3500, home_xG), Clamp(300, 3000, away_xG) >>

\* the (home_goals, away_goals) _simulate_match can return
knockout_match(home_team, away_team, is_neutral) ==
  PoissonDraws(KnockoutXG(home_team.elo, away_team.elo, is_neutral)[1])
    \X PoissonDraws(KnockoutXG(home_team.elo, away_team.elo, is_neutral)[2])

\* the outcomes of random.random() < tie_breaker: the first team goes through
TieBreaks == BOOLEAN

\* the teams _simulate_two_legged_tie can return
simulate_two_legged_tie(team_a, team_b) ==
  { IF leg1[1] + leg2[2] > leg1[2] + leg2[1] THEN team_a.name
    ELSE IF leg1[2] + leg2[1] > leg1[1] + leg2[2] THEN team_b.name
    ELSE IF first THEN team_a.name ELSE team_b.name :
      leg1 \in knockout_match(team_a, team_b, FALSE),
      leg2 \in knockout_match(team_b, team_a, FALSE),
      first \in TieBreaks }

\* the teams _simulate_single_match can return
simulate_single_match(team_a, team_b, is_neutral) ==
  { IF goals[1] > goals[2] THEN team_a.name
    ELSE IF goals[2] > goals[1] THEN team_b.name
    ELSE IF first THEN team_a.name ELSE team_b.name :
      goals \in knockout_match(team_a, team_b, is_neutral),
      first \in TieBreaks }

\* the tests of _generate_cl_bracket without the test of the country
CanPair_any_country(winner, runner) == runner.group # winner.group

\* the runner-up passes the tests of the group and of the country
CanPair(winner, runner) ==
  /\ runner.group # winner.group
  /\ ~(runner.country = winner.country /\ runner.country # "")

RECURSIVE BracketFrom(_, _, _)
\* the loops of _generate_cl_bracket over the shuffled lists
BracketFrom(group_winners, runners_up, used_runners) ==
  IF group_winners = << >> THEN << >>
  ELSE LET winner == Head(group_winners)
           free == { j \in DOMAIN runners_up :
                       /\ runners_up[j].name \notin used_runners
                       /\ CanPair(winner, runners_up[j]) }
       IN  IF free = { } THEN
             BracketFrom(Tail(group_winners), runners_up, used_runners)
           ELSE
             LET runner == runners_up[CHOOSE j \in free :
                                        \A k \in free : j <= k]
             IN  << << winner.name, runner.name >> >>
                   \o BracketFrom(Tail(group_winners), runners_up,
                                  used_runners \cup { runner.name })

IsGroupWinner(t) == t.group_position = 1

IsRunnerUp(t) == t.group_position = 2

\* the brackets _generate_cl_bracket can return
generate_cl_bracket(teams) ==
  { BracketFrom(group_winners, runners_up, { }) :
      group_winners \in Shuffles(SelectSeq(teams, IsGroupWinner)),
      runners_up \in Shuffles(SelectSeq(teams, IsRunnerUp)) }

\* the ties of range(0, len, 2) with i + 1 < len: entries 1-2, 3-4, ...
Pairs(names) ==
  [ k \in 1..(Len(names) \div 2) |-> << names[2 * k - 1], names[2 * k] >> ]

\* the round is played in two legs; otherwise in one match on neutral ground
TwoLegged(fn, stage, size) ==
  IF fn = "simulate_champions_league" THEN stage < 4
  ELSE IF fn = "simulate_europa_league" THEN size > 2
  ELSE FALSE

NoTie == [ kind |-> "none" ]

NoTeam == "Unknown"

Bump(counts, names) ==
  [ name \in DOMAIN counts |->
      counts[name] + Cardinality({ k \in DOMAIN names : names[k] = name }) ]

\* winner_counts.most_common(1)[0], or ("Unknown", 0)
MostLikely(winner_counts, winner_order) ==
  IF winner_order = << >> THEN << NoTeam, 0 >>
  ELSE LET k == CHOOSE k \in DOMAIN winner_order :
                  /\ \A j \in DOMAIN winner_order :
                       winner_counts[winner_order[j]]
                         <= winner_counts[winner_order[k]]
                  /\ \A j \in 1..(k - 1) :
                       winner_counts[winner_order[j]]
                         < winner_counts[winner_order[k]]
       IN  << winner_order[k], winner_counts[winner_order[k]] >>

\* the TournamentSimulationResult; a probability is its count over total
TournamentResult(n_simulations, winner_counts, winner_order, semi_counts, final_counts) ==
  [ n_simulations |-> n_simulations,
    total |-> n_simulations,
    winner_counts |-> winner_counts,
    semi_counts |-> semi_counts,
    final_counts |-> final_counts,
    most_likely_winner |-> MostLikely(winner_counts, winner_order)[1],
    winner_count |-> MostLikely(winner_counts, winner_order)[2] ]

\* a knockout simulation starts: the list is rejected, or the counters are
\* set up
CupStart ==
  \E input \in CupInputs :
    LET fn == input[1]
        teams == input[2]
        n_simulations == input[3]
    IN
    /\ sim.fn = "idle"
    /\ sim' = IF Rejected(fn, teams)
              THEN [ fn |-> fn, pc |-> "raised", error |-> "ValueError",
                     teams |-> teams, n_simulations |-> n_simulations,
                     trial |-> 0 ]
              ELSE [ fn |-> fn, pc |-> "trial",
                     teams |-> teams, n_simulations |-> n_simulations,
                     trial |-> 0, stage |-> 0, size |-> 0,
                     remaining_teams |-> << >>, ties |-> << >>, i |-> 1,
                     next_round |-> << >>, upsets |-> 0,
                     last_tie |-> NoTie, champion |-> NoTeam,
                     winner_order |-> << >>,
                     winner_counts |->
                       [ name \in { teams[k].name : k \in DOMAIN teams } |-> 0 ],
                     semi_counts |->
                       [ name \in { teams[k].name : k \in DOMAIN teams } |-> 0 ],
                     final_counts |->
                       [ name \in { teams[k].name : k \in DOMAIN teams } |-> 0 ] ]
    /\ UNCHANGED << eloVars, calcVars, trackVars, workerVars, limiterVars,
               lastSim, nSims >>

\* a trial starts: the bracket of the Round of 16 is generated, or the
\* teams enter the first round
CupTrial ==
  /\ sim.fn \in CupModes
  /\ sim.pc = "trial"
  /\ IF sim.fn = "simulate_champions_league"
     THEN \E r16_matches \in generate_cl_bracket(sim.teams) :
            sim' = [ sim EXCEPT !.pc = "ties", !.stage = 1, !.size = 16,
                                !.ties = r16_matches, !.i = 1,
                                !.next_round = << >>, !.upsets = 0,
                                !.last_tie = NoTie, !.champion = NoTeam ]
     ELSE sim' = [ sim EXCEPT !.pc = "round", !.stage = 1,
                              !.remaining_teams = NamesOf(sim.teams),
                              !.upsets = 0,
                              !.last_tie = NoTie, !.champion = NoTeam ]
  /\ UNCHANGED << eloVars, calcVars, trackVars, workerVars, limiterVars,
               lastSim, nSims >>

\* a round starts: the teams left are paired, in the flexible cup after a
\* shuffle
CupRound ==
  /\ sim.fn \in CupModes
  /\ sim.pc = "round"
  /\ \E order \in IF sim.fn = "simulate_europa_league"
                  THEN Shuffles(sim.remaining_teams)
                  ELSE { sim.remaining_teams } :
       sim' = [ sim EXCEPT !.pc = "ties", !.size = Len(sim.remaining_teams),
                           !.remaining_teams = order,
                           !.ties = Pairs(order), !.i = 1,
                           !.next_round = << >> ]
  /\ UNCHANGED << eloVars, calcVars, trackVars, workerVars, limiterVars,
               lastSim, nSims >>

\* one tie of the round is played and counted
CupTie ==
  /\ sim.fn \in CupModes
  /\ sim.pc = "ties"
  /\ sim.i <= Len(sim.ties)
  /\ LET team_a == TeamNamed(sim.teams, sim.ties[sim.i][1])
         team_b == TeamNamed(sim.teams, sim.ties[sim.i][2])
         two_legged == TwoLegged(sim.fn, sim.stage, sim.size)
     IN  \E winner \in IF two_legged
                       THEN simulate_two_legged_tie(team_a, team_b)
                       ELSE simulate_single_match(team_a, team_b, TRUE) :
           /\ winner = team_b.name => sim.upsets < MaxUpsets
           /\ sim' = [ sim EXCEPT
                !.i = @ + 1,
                !.next_round = Append(@, winner),
                !.upsets = IF winner = team_b.name THEN @ + 1 ELSE @,
                !.last_tie = [ kind |-> IF two_legged THEN "two_legged"
                                        ELSE "single_neutral",
                               teams |-> { team_a.name, team_b.name },
                               size |-> sim.size,
                               winner |-> winner ],
                !.semi_counts =
                  IF sim.fn = "simulate_europa_league"
                  THEN IF sim.size = 4
                       THEN Bump(@, << team_a.name, team_b.name >>) ELSE @
                  ELSE IF sim.stage = 2 THEN Bump(@, << winner >>) ELSE @,
                !.final_counts =
                  IF sim.fn = "simulate_europa_league"
                  THEN IF sim.size = 2
                       THEN Bump(@, << team_a.name, team_b.name >>) ELSE @
                  ELSE IF sim.stage = 3 THEN Bump(@, << winner >>) ELSE @ ]
  /\ UNCHANGED << eloVars, calcVars, trackVars, workerVars, limiterVars,
               lastSim, nSims >>

\* the trial is over after this round
LastRound(fn, stage, next_round) ==
  IF fn = "simulate_europa_league" THEN Len(next_round) <= 1 ELSE stage = 4

\* the round is over: its winners enter the next round, or the trial ends
\* and its champion, if there is one, is counted
CupRoundEnd ==
  /\ sim.fn \in CupModes
  /\ sim.pc = "ties"
  /\ sim.i > Len(sim.ties)
  /\ sim' = IF LastRound(sim.fn, sim.stage, sim.next_round)
            THEN LET champion == IF sim.next_round = << >> THEN NoTeam
                                 ELSE sim.next_round[1]
                 IN  [ sim EXCEPT
                       !.pc = IF sim.trial + 1 = sim.n_simulations
                              THEN "statistics" ELSE "trial",
                       !.trial = @ + 1,
                       !.remaining_teams = sim.next_round,
                       !.ties = << >>, !.i = 1, !.next_round = << >>,
                       !.champion = champion,
                       !.winner_order =
                         IF champion = NoTeam \/ sim.winner_counts[champion] > 0
                         THEN @ ELSE Append(@, champion),
                       !.winner_counts =
                         IF champion = NoTeam THEN @
                         ELSE Bump(@, << champion >>) ]
            ELSE [ sim EXCEPT !.pc = "round", !.stage = @ + 1,
                              !.remaining_teams = sim.next_round,
                              !.ties = << >>, !.i = 1, !.next_round = << >> ]
  /\ UNCHANGED << eloVars, calcVars, trackVars, workerVars, limiterVars,
               lastSim, nSims >>

\* the probabilities over the trials and the result
CupStatistics ==
  /\ sim.fn \in CupModes
  /\ sim.pc = "statistics"
  /\ sim' = [ fn |-> sim.fn, pc |-> "done", teams |-> sim.teams,
              n_simulations |-> sim.n_simulations, trial |-> sim.trial,
              result |-> TournamentResult(sim.n_simulations,
                                          sim.winner_counts, sim.winner_order,
                                          sim.semi_counts, sim.final_counts) ]
  /\ UNCHANGED << eloVars, calcVars, trackVars, workerVars, limiterVars,
               lastSim, nSims >>

\* the result, or the error, is handed to the caller
CupReturn ==
  /\ sim.fn \in CupModes
  /\ sim.pc \in { "done", "raised" }
  /\ sim' = [ fn |-> "idle" ]
  /\ UNCHANGED << eloVars, calcVars, trackVars, workerVars, limiterVars,
               lastSim, nSims >>

NextKnockout ==
  \/ CupStart
  \/ CupTrial
  \/ CupRound
  \/ CupTie
  \/ CupRoundEnd
  \/ CupStatistics
  \/ CupReturn

SpecKnockout == Init /\ [][NextKnockout]_vars

----------------------------------------------------------------------------
(* Properties of the league simulation *)

\* a league simulation of some teams without remaining fixtures
NoFixturesLeft ==
  /\ sim.fn = "simulate_league"
  /\ sim.current_standings # << >>
  /\ sim.remaining_fixtures = << >>

\* C11: with no remaining fixtures and N >= 1 trials, every team finishes
\* every trial in the same position with exactly its current points, and the
\* result gives each team one position with probability 1 and average final
\* points equal to its current points.
CertainOutcome ==
  NoFixturesLeft =>
    /\ sim.pc \in { "fixtures", "statistics" } =>
         \A i \in DOMAIN sim.team_data :
           LET team == sim.team_data[i].name
           IN  /\ Len(sim.final_positions[team]) = sim.trial
               /\ \A k \in 1..sim.trial :
                    /\ sim.final_positions[team][k]
                         = sim.final_positions[team][1]
                    /\ sim.final_points[team][k] = sim.team_data[i].points
    /\ sim.pc = "done" =>
         /\ Len(sim.result.standings) = Len(sim.team_data)
         /\ \A i \in DOMAIN sim.result.standings :
              LET standing == sim.result.standings[i]
              IN  /\ standing.trials = sim.n_simulations
                  /\ Cardinality(DOMAIN standing.position_distribution) = 1
                  /\ \A pos \in DOMAIN standing.position_distribution :
                       standing.position_distribution[pos] = 10000
                  /\ standing.points_sum
                       = standing.trials * standing.current_points

\* C11 witness: a simulation of several trials without fixtures has produced
\* its result
CertainOutcomeWitness ==
  /\ NoFixturesLeft
  /\ sim.pc = "done"
  /\ sim.n_simulations >= 2
  /\ Len(sim.result.standings) = 3

\* C12: two runs with the same standings, fixtures, ratings and trial count
\* produce identical aggregate results.
SimulationReproducible ==
  ( /\ sim.fn = "simulate_league"
    /\ sim.pc = "done"
    /\ lastSim.fn = "simulate_league"
    /\ sim.current_standings = lastSim.current_standings
    /\ sim.remaining_fixtures = lastSim.remaining_fixtures
    /\ sim.n_simulations = lastSim.n_simulations
    /\ sim.team_data = lastSim.team_data )
  => sim.result = lastSim.result

----------------------------------------------------------------------------
(* Properties of the knockout simulation *)

SixteenOnly == { "simulate_champions_league", "simulate_world_cup" }

\* C13: for a team list whose length is not 16, simulate_champions_league
\* and simulate_world_cup fail with a configuration error before any trial,
\* with no result and the list as it was given.
SixteenRequired ==
  (sim.fn \in SixteenOnly /\ Len(sim.teams) # 16)
  => /\ sim.pc = "raised"
     /\ sim.error = "ValueError"
     /\ sim.trial = 0
     /\ DOMAIN sim = { "fn", "pc", "error", "teams", "n_simulations", "trial" }

\* C13 witness: a list of 17 teams has been rejected
SeventeenRejected ==
  /\ sim.fn \in SixteenOnly
  /\ Len(sim.teams) = 17
  /\ sim.pc = "raised"

\* the pair may meet in the Round of 16
MayMeet(winner, runner) ==
  /\ runner.group # winner.group
  /\ ~(runner.country = winner.country /\ runner.country # "")

\* 8 group winners and 8 runners-up, and a pairing within the exclusions:
\* for some k every winner can meet the runner-up k places on
HasPairing(teams) ==
  LET group_winners == SelectSeq(teams, IsGroupWinner)
      runners_up == SelectSeq(teams, IsRunnerUp)
  IN  /\ Len(teams) = 16
      /\ Len(group_winners) = 8
      /\ Len(runners_up) = 8
      /\ \E k \in 0..7 :
           \A j \in 1..8 :
             MayMeet(group_winners[j], Rotated(runners_up, k)[j])

\* the Round-of-16 bracket of the trial has just been generated
BracketDrawn ==
  /\ sim.fn = "simulate_champions_league"
  /\ sim.pc = "ties"
  /\ sim.stage = 1
  /\ sim.i = 1

\* C14: for 8 group winners and 8 runners-up that can be paired within the
\* exclusions, every generated Round-of-16 bracket has 8 ties, each of a
\* group winner with a runner-up, and each of the 16 teams is in exactly one.
BracketComplete ==
  (BracketDrawn /\ HasPairing(sim.teams))
  => /\ Len(sim.ties) = 8
     /\ \A k \in DOMAIN sim.ties :
          /\ IsGroupWinner(TeamNamed(sim.teams, sim.ties[k][1]))
          /\ IsRunnerUp(TeamNamed(sim.teams, sim.ties[k][2]))
     /\ \A j \in DOMAIN sim.teams :
          Cardinality({ k \in DOMAIN sim.ties :
                          sim.teams[j].name \in { sim.ties[k][1],
                                                  sim.ties[k][2] } }) = 1

\* a trial of the flexible cup has ended
FlexibleTrialOver ==
  /\ sim.fn = "simulate_europa_league"
  /\ sim.pc \in { "trial", "statistics" }
  /\ sim.trial > 0

\* C15: in every trial of the flexible cup over 8 or more teams the ties are
\* two-legged until two teams remain, and the champion is the winner of one
\* single match on neutral ground between those two.
FinalDecidesChampion ==
  /\ (sim.fn = "simulate_europa_league" /\ sim.pc = "ties"
        /\ sim.last_tie # NoTie /\ sim.i > 1)
     => (sim.last_tie.kind = "two_legged" <=> sim.last_tie.size > 2)
  /\ FlexibleTrialOver
     => /\ sim.last_tie.kind = "single_neutral"
        /\ sim.last_tie.size = 2
        /\ sim.champion = sim.last_tie.winner

----------------------------------------------------------------------------
(* PredictionTracker behind the tracking routes.  Probabilities, confidence
   and expected goals are in tenths; a scoreline string "h-a" is the pair
   (h, a); a timestamp is the number of the call; an Optional field is None
   or Some(value). *)

None == << >>

Some(value) == << value >>

The(optional) == optional[1]

\* requests of the store route
StoreInputs ==
  { [ match_id |-> "m1", league |-> "Premier League", match_date |-> "2025-01",
      home_win_prob |-> 5, draw_prob |-> 3, away_win_prob |-> 2,
      home_xG |-> 15, away_xG |-> 5, confidence |-> 5 ],
    [ match_id |-> "m1", league |-> "Premier League", match_date |-> "2025-02",
      home_win_prob |-> 4, draw_prob |-> 2, away_win_prob |-> 4,
      home_xG |-> 12, away_xG |-> 14, confidence |-> 4 ],
    [ match_id |-> "m2", league |-> "Ligue 1", match_date |-> "2025-01",
      home_win_prob |-> 2, draw_prob |-> 3, away_win_prob |-> 5,
      home_xG |-> 8, away_xG |-> 21, confidence |-> 8 ],
    [ match_id |-> "m2", league |-> "Ligue 1", match_date |-> "2025-01",
      home_win_prob |-> 10, draw_prob |-> 10, away_win_prob |-> 0,
      home_xG |-> 25, away_xG |-> 10, confidence |-> 3 ],
    [ match_id |-> "m2", league |-> "Ligue 1", match_date |-> "2025-02",
      home_win_prob |-> 4, draw_prob |-> 3, away_win_prob |-> 3,
      home_xG |-> 14, away_xG |-> 13, confidence |-> 4 ] }

\* requests of the outcome route
OutcomeInputs ==
  { [ match_id |-> id, home_goals |-> score[1], away_goals |-> score[2] ] :
      id \in { "m1", "m2", "m3" },
      score \in { << 2, 0 >>, << 0, 1 >>, << 1, 1 >> } }

\* round(x) of a float given in tenths: halves go to the even integer
PyRound(x) ==
  LET q == x \div 10
      r == x % 10
  IN  IF r < 5 THEN q
      ELSE IF r > 5 THEN q + 1
      ELSE IF q % 2 = 0 THEN q ELSE q + 1

\* predicted_winner of store_prediction for the three probabilities
PredictedWinner(p_home, p_draw, p_away) ==
  IF p_home > p_draw /\ p_home > p_away THEN "home"
  ELSE IF p_away > p_home /\ p_away > p_draw THEN "away"
  ELSE "draw"

\* the PredictionRecord store_prediction creates
NewRecord(request, t) ==
  [ match_id |-> request.match_id,
    league |-> request.league,
    match_date |-> request.match_date,
    predicted_home_win |-> request.home_win_prob,
    predicted_draw |-> request.draw_prob,
    predicted_away_win |-> request.away_win_prob,
    predicted_home_goals |-> request.home_xG,
    predicted_away_goals |-> request.away_xG,
    predicted_scoreline |->
      << PyRound(request.home_xG), PyRound(request.away_xG) >>,
    predicted_winner |->
      PredictedWinner(request.home_win_prob, request.draw_prob,
                      request.away_win_prob),
    confidence |-> request.confidence,
    actual_home_goals |-> None,
    actual_away_goals |-> None,
    actual_winner |-> None,
    winner_correct |-> None,
    scoreline_correct |-> None,
    goals_diff |-> None,
    prediction_timestamp |-> t,
    outcome_timestamp |-> None ]

\* self._predictions[match_id] = record
Assigned(P, match_id, record) ==
  [ id \in DOMAIN P \cup { match_id } |->
      IF id = match_id THEN record ELSE P[id] ]

\* _predictions after store_prediction, with every other record dropped
store_prediction_only(P, request, t) ==
  [ id \in { request.match_id } |-> NewRecord(request, t) ]

\* _predictions after store_prediction
store_prediction(P, request, t) ==
  Assigned(P, request.match_id, NewRecord(request, t))

\* actual_winner of update_outcome
ActualWinner(home_goals, away_goals) ==
  IF home_goals > away_goals THEN "home"
  ELSE IF away_goals > home_goals THEN "away"
  ELSE "draw"

\* the record after the assignments of update_outcome
Resolved(record, home_goals, away_goals, t) ==
  [ record EXCEPT
      !.actual_home_goals = Some(home_goals),
      !.actual_away_goals = Some(away_goals),
      !.actual_winner = Some(ActualWinner(home_goals, away_goals)),
      !.outcome_timestamp = Some(t),
      !.winner_correct =
        Some(record.predicted_winner = ActualWinner(home_goals, away_goals)),
      !.scoreline_correct =
        Some(record.predicted_scoreline = << home_goals, away_goals >>),
      !.goals_diff =
        Some(Abs(PyRound(record.predicted_home_goals
                           + record.predicted_away_goals)
                   - (home_goals + away_goals))) ]

\* a record made up for a match without a prediction
BlankRecord(match_id, t) ==
  NewRecord([ match_id |-> match_id, league |-> "", match_date |-> "",
              home_win_prob |-> 0, draw_prob |-> 0, away_win_prob |-> 0,
              home_xG |-> 0, away_xG |-> 0, confidence |-> 0 ], t)

\* _predictions after update_outcome, with a record created when none is
\* found
update_outcome_upsert(P, request, t) ==
  Assigned(P, request.match_id,
           Resolved(IF request.match_id \in DOMAIN P THEN P[request.match_id]
                    ELSE BlankRecord(request.match_id, t),
                    request.home_goals, request.away_goals, t))

\* _predictions after update_outcome, with a recorded outcome kept
update_outcome_once(P, request, t) ==
  IF request.match_id \notin DOMAIN P THEN P
  ELSE IF P[request.match_id].actual_winner # None THEN P
  ELSE Assigned(P, request.match_id,
                Resolved(P[request.match_id], request.home_goals,
                         request.away_goals, t))

\* _predictions after update_outcome
update_outcome(P, request, t) ==
  IF request.match_id \notin DOMAIN P THEN P
  ELSE Assigned(P, request.match_id,
                Resolved(P[request.match_id], request.home_goals,
                         request.away_goals, t))

\* the monthly files after _save_predictions: the file of every month that
\* has a record is rewritten, the other files stay
save_predictions(files, P) ==
  LET by_month == { P[id].match_date : id \in DOMAIN P }
  IN  [ month \in DOMAIN files \cup by_month |->
          IF month \in by_month
          THEN [ id \in { m \in DOMAIN P : P[m].match_date = month } |-> P[id] ]
          ELSE files[month] ]

RECURSIVE SumOver(_, _)
\* sum(term[p] for p in ids)
SumOver(term, ids) ==
  IF ids = { } THEN 0
  ELSE LET id == CHOOSE id \in ids : TRUE
       IN  term[id] + SumOver(term, ids \ { id })

\* sum((p - a) ** 2 ...) of one record, in hundredths
BrierTerm(pred) ==
  LET actual == IF pred.actual_winner = Some("home") THEN << 10, 0, 0 >>
                ELSE IF pred.actual_winner = Some("draw") THEN << 0, 10, 0 >>
                ELSE << 0, 0, 10 >>
  IN  (pred.predicted_home_win - actual[1]) * (pred.predicted_home_win - actual[1])
        + (pred.predicted_draw - actual[2]) * (pred.predicted_draw - actual[2])
        + (pred.predicted_away_win - actual[3]) * (pred.predicted_away_win - actual[3])

\* ModelAccuracyMetrics without filters; a rate is its count over the number
\* of records it is taken over, brier_score is brier_sum over completed
calculate_accuracy_metrics(P) ==
  LET completed == { id \in DOMAIN P : P[id].actual_winner # None }
      correct == { id \in completed : P[id].winner_correct = Some(TRUE) }
      home == { id \in completed : P[id].predicted_winner = "home" }
      draw == { id \in completed : P[id].predicted_winner = "draw" }
      away == completed \ (home \cup draw)
      high_conf == { id \in completed : P[id].confidence >= 7 }
      med_conf == { id \in completed :
                      P[id].confidence >= 4 /\ P[id].confidence < 7 }
      low_conf == { id \in completed : P[id].confidence < 4 }
      metrics == [ total_predictions |-> Cardinality(DOMAIN P),
                   completed_predictions |-> Cardinality(completed),
                   winner_correct_count |-> 0, exact_scoreline_count |-> 0,
                   home_win_predicted |-> 0, home_win_correct |-> 0,
                   draw_predicted |-> 0, draw_correct |-> 0,
                   away_win_predicted |-> 0, away_win_correct |-> 0,
                   goals_difference_sum |-> 0, within_1_goal_count |-> 0,
                   brier_sum |-> 0,
                   high_confidence |-> << 0, 0 >>,
                   medium_confidence |-> << 0, 0 >>,
                   low_confidence |-> << 0, 0 >> ]
  IN  IF completed = { } THEN metrics
      ELSE [ metrics EXCEPT
             !.winner_correct_count = Cardinality(correct),
             !.exact_scoreline_count =
               Cardinality({ id \in completed :
                             P[id].scoreline_correct = Some(TRUE) }),
             !.home_win_predicted = Cardinality(home),
             !.home_win_correct = Cardinality(home \cap correct),
             !.draw_predicted = Cardinality(draw),
             !.draw_correct = Cardinality(draw \cap correct),
             !.away_win_predicted = Cardinality(away),
             !.away_win_correct = Cardinality(away \cap correct),
             !.goals_difference_sum =
               SumOver([ id \in completed |-> The(P[id].goals_diff) ], completed),
             !.within_1_goal_count =
               Cardinality({ id \in completed : The(P[id].goals_diff) <= 1 }),
             !.brier_sum =
               SumOver([ id \in completed |-> BrierTerm(P[id]) ], completed),
             !.high_confidence =
               << Cardinality(high_conf \cap correct), Cardinality(high_conf) >>,
             !.medium_confidence =
               << Cardinality(med_conf \cap correct), Cardinality(med_conf) >>,
             !.low_confidence =
               << Cardinality(low_conf \cap correct), Cardinality(low_conf) >> ]

\* a call of a tracking route
TrackCall(op) ==
  /\ nTrack < MaxTrackOps
  /\ nTrack' = nTrack + 1
  /\ trackOp' = op
  /\ UNCHANGED << eloVars, calcVars, simVars, workerVars, limiterVars >>

\* the store route: the record is created, assigned and saved
StorePrediction ==
  \E request \in StoreInputs :
    /\ predictions' = store_prediction(predictions, request, nTrack + 1)
    /\ storage' = save_predictions(storage, predictions')
    /\ outcomes' = Assigned(outcomes, request.match_id, << >>)
    /\ trackRet' = [ kind |-> "stored",
                     match_id |-> request.match_id,
                     predicted_winner |->
                       predictions'[request.match_id].predicted_winner,
                     predicted_scoreline |->
                       predictions'[request.match_id].predicted_scoreline ]
    /\ TrackCall([ op |-> "store_prediction", match_id |-> request.match_id,
                   request |-> request ])

\* the outcome route: 404 without a prediction, or the record is updated and
\* saved
UpdateOutcome ==
  \E request \in OutcomeInputs :
    /\ predictions' = update_outcome(predictions, request, nTrack + 1)
    /\ IF request.match_id \in DOMAIN predictions
       THEN /\ storage' = save_predictions(storage, predictions')
            /\ outcomes' = [ outcomes EXCEPT ![request.match_id] =
                               Append(@, << request.home_goals,
                                            request.away_goals >>) ]
            /\ trackRet' = [ kind |-> "updated",
                             match_id |-> request.match_id,
                             record |-> predictions'[request.match_id] ]
       ELSE /\ UNCHANGED << storage, outcomes >>
            /\ trackRet' = [ kind |-> "HTTPException", status_code |-> 404,
                             match_id |-> request.match_id ]
    /\ TrackCall([ op |-> "update_outcome", match_id |-> request.match_id,
                   request |-> request ])

\* the accuracy route
AccuracyMetrics ==
  /\ trackRet' = [ kind |-> "metrics",
                   metrics |-> calculate_accuracy_metrics(predictions) ]
  /\ TrackCall([ op |-> "calculate_accuracy_metrics", match_id |-> "" ])
  /\ UNCHANGED << predictions, storage, outcomes >>

\* the order of the ISO date strings used as match_date and cutoff
DateRank(date) ==
  CASE date = "" -> 0
    [] date = "2025-01" -> 1
    [] date = "2025-02" -> 2
    [] date = "2025-03" -> 3

\* (datetime.utcnow() - timedelta(days=days)).date().isoformat(): the clock
\* is not under the caller's control
Cutoffs == { "2025-01", "2025-02", "2025-03" }

\* predictions = [p for p in predictions if p.match_date >= cutoff]
WithinDays(P, cutoff) ==
  [ id \in { m \in DOMAIN P : DateRank(P[m].match_date) >= DateRank(cutoff) }
      |-> P[id] ]

\* the adjustments get_model_adjustments starts from: factors in tenths,
\* draw_bias and goals_scale in hundredths
NeutralAdjustments ==
  [ home_advantage_factor |-> 10, elo_weight |-> 10, draw_bias |-> 0,
    goals_scale |-> 100 ]

\* the adjustments computed from the metrics once there is enough data
Adjusted(metrics) ==
  [ NeutralAdjustments EXCEPT
      !.home_advantage_factor =
        IF metrics.home_win_predicted > 0
        THEN IF 10 * metrics.home_win_correct < 4 * metrics.home_win_predicted
             THEN 9
             ELSE IF 10 * metrics.home_win_correct
                       > 6 * metrics.home_win_predicted
             THEN 11 ELSE @
        ELSE @,
      !.draw_bias =
        IF metrics.draw_predicted > 0
        THEN IF 100 * metrics.draw_correct < 25 * metrics.draw_predicted
             THEN 0 - 2
             ELSE IF 100 * metrics.draw_correct > 35 * metrics.draw_predicted
             THEN 2 ELSE @
        ELSE @,
      !.goals_scale =
        IF 10 * metrics.goals_difference_sum
             > 15 * metrics.completed_predictions
        THEN 95 ELSE 100 ]

\* get_model_adjustments without the test for enough data
get_model_adjustments_eager(P, cutoff) ==
  Adjusted(calculate_accuracy_metrics(WithinDays(P, cutoff)))

\* get_model_adjustments, the clock giving the cutoff of the last 90 days
get_model_adjustments(P, cutoff) ==
  LET metrics == calculate_accuracy_metrics(WithinDays(P, cutoff))
  IN  IF metrics.completed_predictions < 30 THEN NeutralAdjustments
      ELSE Adjusted(metrics)

\* the model-adjustments route
ModelAdjustments ==
  \E cutoff \in Cutoffs :
    /\ trackRet' = [ kind |-> "adjustments",
                     adjustments |-> get_model_adjustments(predictions, cutoff),
                     completed_predictions |->
                       calculate_accuracy_metrics(
                         WithinDays(predictions, cutoff)).completed_predictions ]
    /\ TrackCall([ op |-> "get_model_adjustments", match_id |-> "" ])
    /\ UNCHANGED << predictions, storage, outcomes >>

NextTracker ==
  \/ StorePrediction
  \/ UpdateOutcome
  \/ AccuracyMetrics
  \/ ModelAdjustments

SpecTracker == Init /\ [][NextTracker]_vars

----------------------------------------------------------------------------
(* Calls of the tracker made from threads.  PredictionTracker has no lock;
   a step is one statement that reads or writes _predictions or a field of
   a record.  update_outcome keeps a reference to the record it looked up:
   the reference is attached while that record is the one in _predictions. *)

\* the calls a thread makes
WorkerCalls ==
  { [ op |-> "store_prediction", match_id |-> request.match_id,
      request |-> request ] :
      request \in { r \in StoreInputs : r.match_id = "m1" } }
    \cup { [ op |-> "update_outcome", match_id |-> request.match_id,
             request |-> request ] :
             request \in { r \in OutcomeInputs :
                             /\ r.home_goals + r.away_goals = 2
                             /\ r.match_id # "m3"
                             /\ r.match_id = "m2" => r.home_goals = 2 } }

\* the fields update_outcome assigns, in the order of its statements
OutcomeAssignments ==
  << "actual_home_goals", "actual_away_goals", "actual_winner",
     "outcome_timestamp", "winner_correct", "scoreline_correct",
     "goals_diff" >>

AllIdle == \A w \in Threads : workers[w].pc = "idle"

\* the references held by the threads when nothing tells them that the
\* record of match_id was replaced
Detached_never(W, match_id) == W

\* the references held by the threads after _predictions[match_id] was
\* assigned a new record: a reference to the old record stays with the old
\* record
Detached(W, match_id) ==
  [ w \in DOMAIN W |->
      IF W[w].pc = "write" /\ W[w].call.match_id = match_id
      THEN [ W[w] EXCEPT !.attached = FALSE ]
      ELSE W[w] ]

\* a thread enters store_prediction or update_outcome
Begin(w) ==
  \E call \in WorkerCalls :
    /\ workers[w].pc = "idle"
    /\ nTrack < MaxThreadCalls
    /\ nTrack' = nTrack + 1
    /\ trackOp' = call
    /\ workers' = [ workers EXCEPT ![w] =
                      [ pc |-> IF call.op = "store_prediction"
                               THEN "assign" ELSE "lookup",
                        call |-> call, t |-> nTrack + 1,
                        attached |-> FALSE, next |-> 1 ] ]
    /\ base' = IF AllIdle THEN predictions ELSE base
    /\ round' = IF AllIdle THEN << [ call EXCEPT !.op = call.op ] >>
                ELSE Append(round, call)
    /\ UNCHANGED << predictions, storage, trackRet, outcomes >>
    /\ UNCHANGED << eloVars, calcVars, simVars, limiterVars >>

\* store_prediction: self._predictions[match_id] = record
StoreAssign(w) ==
  /\ workers[w].pc = "assign"
  /\ predictions' = store_prediction(predictions, workers[w].call.request,
                                     workers[w].t)
  /\ workers' = [ Detached(workers, workers[w].call.match_id)
                    EXCEPT ![w].pc = "save" ]
  /\ UNCHANGED << storage, trackOp, trackRet, nTrack, outcomes, base, round >>
  /\ UNCHANGED << eloVars, calcVars, simVars, limiterVars >>

\* update_outcome: if match_id not in self._predictions: return None
OutcomeLookup(w) ==
  /\ workers[w].pc = "lookup"
  /\ workers' = [ workers EXCEPT ![w] =
                    IF workers[w].call.match_id \in DOMAIN predictions
                    THEN [ @ EXCEPT !.pc = "read" ]
                    ELSE [ pc |-> "idle" ] ]
  /\ UNCHANGED << trackVars, base, round >>
  /\ UNCHANGED << eloVars, calcVars, simVars, limiterVars >>

\* update_outcome: record = self._predictions[match_id]
OutcomeRead(w) ==
  /\ workers[w].pc = "read"
  /\ workers' = [ workers EXCEPT ![w].pc = "write", ![w].attached = TRUE ]
  /\ UNCHANGED << trackVars, base, round >>
  /\ UNCHANGED << eloVars, calcVars, simVars, limiterVars >>

\* update_outcome: the next assignment to a field of record; it changes
\* _predictions only while record is the record held there
OutcomeWrite(w) ==
  LET id == workers[w].call.match_id
      field == OutcomeAssignments[workers[w].next]
      request == workers[w].call.request
  IN  /\ workers[w].pc = "write"
      /\ predictions' =
           IF workers[w].attached
           THEN [ predictions EXCEPT ![id][field] =
                    Resolved(predictions[id], request.home_goals,
                             request.away_goals, workers[w].t)[field] ]
           ELSE predictions
      /\ workers' = [ workers EXCEPT ![w] =
                        IF workers[w].next = Len(OutcomeAssignments)
                        THEN [ @ EXCEPT !.pc = "save" ]
                        ELSE [ @ EXCEPT !.next = @ + 1 ] ]
      /\ UNCHANGED << storage, trackOp, trackRet, nTrack, outcomes, base,
                      round >>
      /\ UNCHANGED << eloVars, calcVars, simVars, limiterVars >>

\* self._save_predictions() and the return of the call
WorkerSave(w) ==
  /\ workers[w].pc = "save"
  /\ storage' = save_predictions(storage, predictions)
  /\ workers' = [ workers EXCEPT ![w] = [ pc |-> "idle" ] ]
  /\ UNCHANGED << predictions, trackOp, trackRet, nTrack, outcomes, base,
                  round >>
  /\ UNCHANGED << eloVars, calcVars, simVars, limiterVars >>

NextWorkers ==
  \E w \in Threads :
    \/ Begin(w)
    \/ StoreAssign(w)
    \/ OutcomeLookup(w)
    \/ OutcomeRead(w)
    \/ OutcomeWrite(w)
    \/ WorkerSave(w)

SpecWorkers == Init /\ [][NextWorkers]_vars

----------------------------------------------------------------------------
(* RateLimiter of the ESPN client.  Time is in seconds, tokens are counted
   in sixtieths of a token, so that rate (requests_per_minute / 60.0 tokens
   a second) is requests_per_minute sixtieths a second.  acquire holds the
   lock from its first statement to its last, also while it sleeps. *)

Token == 60

\* requests_per_minute of the constructor; the ESPN client passes 30
RequestsPerMinute == { 1, 2, 30 }

\* readings of time.time(), which may be set back between two readings
Times == 0 .. MaxWall

\* min(self.max_tokens, self.tokens + elapsed * self.rate), without the cap
Refilled_uncapped(bucket, t) ==
  bucket.tokens + (t - bucket.last_update) * bucket.rate

\* min(self.max_tokens, self.tokens + elapsed * self.rate)
Refilled(bucket, t) ==
  Min(bucket.max_tokens,
      bucket.tokens + (t - bucket.last_update) * bucket.rate)

\* RateLimiter(requests_per_minute)
NewLimiter ==
  \E requests_per_minute \in RequestsPerMinute, t \in Times :
    /\ limiter.pc = "none"
    /\ limiter' = [ pc |-> "free", rate |-> requests_per_minute,
                    tokens |-> requests_per_minute * Token,
                    max_tokens |-> requests_per_minute * Token,
                    last_update |-> t, waits |-> 0 ]
    /\ UNCHANGED << nAcquire, eloVars, calcVars, simVars, trackVars,
                    workerVars >>

\* acquire up to its return or up to asyncio.sleep
Acquire ==
  \E t \in Times :
    /\ limiter.pc = "free"
    /\ nAcquire < MaxAcquires
    /\ nAcquire' = nAcquire + 1
    /\ limiter' =
         IF Refilled(limiter, t) < Token
         THEN [ limiter EXCEPT !.tokens = Refilled(limiter, t),
                               !.last_update = t, !.pc = "sleeping" ]
         ELSE [ limiter EXCEPT !.tokens = Refilled(limiter, t) - Token,
                               !.last_update = t ]
    /\ UNCHANGED << eloVars, calcVars, simVars, trackVars, workerVars >>

\* acquire after asyncio.sleep(wait_time)
AcquireWake ==
  /\ limiter.pc = "sleeping"
  /\ limiter' = [ limiter EXCEPT !.tokens = 0, !.pc = "free",
                                 !.waits = @ + 1 ]
  /\ UNCHANGED << nAcquire, eloVars, calcVars, simVars, trackVars,
                  workerVars >>

NextLimiter ==
  \/ NewLimiter
  \/ Acquire
  \/ AcquireWake

SpecLimiter == Init /\ [][NextLimiter]_vars

----------------------------------------------------------------------------
(* Properties of the tracker *)

\* C16: the stored predictedWinner of every record is an outcome whose
\* probability is the largest of the three, and it is "draw" whenever draw
\* is among the outcomes with the largest probability.
WinnerIsArgmax ==
  \A id \in DOMAIN predictions :
    LET p == predictions[id]
        prob == [ home |-> p.predicted_home_win, draw |-> p.predicted_draw,
                  away |-> p.predicted_away_win ]
        largest == Max(Max(prob.home, prob.draw), prob.away)
    IN  /\ prob[p.predicted_winner] = largest
        /\ prob.draw = largest => p.predicted_winner = "draw"

\* a call of a tracking route has just returned
Called(op) == nTrack' = nTrack + 1 /\ trackOp'.op = op

\* C17: recordOutcome for a matchId without a stored prediction reports not
\* found and leaves the records, in memory and in the files, as they were.
UnknownOutcomeRejected ==
  [][ (Called("update_outcome") /\ trackOp'.match_id \notin DOMAIN predictions)
      => /\ trackRet'.kind = "HTTPException"
         /\ trackRet'.status_code = 404
         /\ predictions' = predictions
         /\ storage' = storage ]_vars

\* C17 witness: an outcome for an unknown match was rejected while records
\* of other matches were held
UnknownOutcomeWitness ==
  /\ trackOp.op = "update_outcome"
  /\ trackOp.match_id \notin DOMAIN predictions
  /\ DOMAIN predictions # { }
  /\ trackRet.kind = "HTTPException"

HasOutcome(p) == p.actual_winner # None

PredictionFields(p) ==
  << p.match_id, p.league, p.match_date, p.predicted_home_win,
     p.predicted_draw, p.predicted_away_win, p.predicted_home_goals,
     p.predicted_away_goals, p.predicted_scoreline, p.predicted_winner,
     p.confidence >>

OutcomeFields(p) ==
  << p.actual_home_goals, p.actual_away_goals, p.actual_winner,
     p.winner_correct, p.scoreline_correct >>

\* the records have the same prediction fields, actual goals, actual winner
\* and correctness flags
SameContent(p, q) ==
  /\ PredictionFields(p) = PredictionFields(q)
  /\ OutcomeFields(p) = OutcomeFields(q)

\* C18 as stated: once an outcome has been recorded for a matchId, no later
\* call changes the record's prediction fields, actual goals, actual winner
\* or correctness flags.
NeverMutatedAgain ==
  [][ \A id \in DOMAIN predictions :
        HasOutcome(predictions[id])
        => /\ id \in DOMAIN predictions'
           /\ SameContent(predictions'[id], predictions[id]) ]_vars

\* C18 amended: a record with an outcome is never removed, and its content
\* is changed only by a storePrediction or recordOutcome call for its own
\* matchId; metrics calls and calls for other matchIds leave it as it was.
MutatedByOwnCallsOnly ==
  [][ \A id \in DOMAIN predictions :
        HasOutcome(predictions[id])
        => /\ id \in DOMAIN predictions'
           /\ \/ SameContent(predictions'[id], predictions[id])
              \/ /\ Called("store_prediction") \/ Called("update_outcome")
                 /\ trackOp'.match_id = id ]_vars

\* C18 witness: a record with an outcome is held after a prediction for
\* another match was stored
OtherMatchStored ==
  \E id \in DOMAIN predictions :
    /\ HasOutcome(predictions[id])
    /\ The(predictions[id].outcome_timestamp) < nTrack
    /\ trackOp.op = "store_prediction"
    /\ trackOp.match_id # id

\* the outcome the tracker was last given for the record
LastOutcome(id) == outcomes[id][Len(outcomes[id])]

\* C19: after recordOutcome was called twice or more for a matchId the
\* record holds the goals, winner and correctness flags of the last call, and
\* accuracyMetrics counts each record with an outcome once, by its last
\* outcome.
LastWriteWins ==
  /\ \A id \in DOMAIN predictions :
       Len(outcomes[id]) >= 2
       => LET p == predictions[id]
              last == LastOutcome(id)
              winner == IF last[1] > last[2] THEN "home"
                        ELSE IF last[1] < last[2] THEN "away" ELSE "draw"
          IN  /\ p.actual_home_goals = Some(last[1])
              /\ p.actual_away_goals = Some(last[2])
              /\ p.actual_winner = Some(winner)
              /\ p.winner_correct = Some(p.predicted_winner = winner)
              /\ p.scoreline_correct = Some(p.predicted_scoreline = last)
  /\ trackRet.kind = "metrics"
     => LET resolved == { id \in DOMAIN outcomes : outcomes[id] # << >> }
            Won(id) == IF LastOutcome(id)[1] > LastOutcome(id)[2] THEN "home"
                       ELSE IF LastOutcome(id)[1] < LastOutcome(id)[2]
                       THEN "away" ELSE "draw"
        IN  /\ trackRet.metrics.completed_predictions = Cardinality(resolved)
            /\ trackRet.metrics.winner_correct_count
                 = Cardinality({ id \in resolved :
                                   predictions[id].predicted_winner = Won(id) })
            /\ trackRet.metrics.exact_scoreline_count
                 = Cardinality({ id \in resolved :
                                   predictions[id].predicted_scoreline
                                     = LastOutcome(id) })

\* C19 witness: metrics were computed after two different scores had been
\* recorded for the only record with an outcome
SecondOutcomeCounted ==
  /\ trackRet.kind = "metrics"
  /\ trackRet.metrics.completed_predictions = 1
  /\ \E id \in DOMAIN outcomes :
       /\ Len(outcomes[id]) = 2
       /\ outcomes[id][1] # outcomes[id][2]

\* C20: the Brier score returned by accuracyMetrics, the mean of brier_sum
\* over the records with an outcome, is at least 0 and at most 2.
BrierBounded ==
  trackRet.kind = "metrics"
  => /\ trackRet.metrics.brier_sum >= 0
     /\ trackRet.metrics.brier_sum
          <= 200 * trackRet.metrics.completed_predictions

\* the resolved records the tracker holds
ResolvedIds(P) == { id \in DOMAIN P : HasOutcome(P[id]) }

\* C21: while the tracker holds fewer than 30 resolved predictions, a call
\* of get_model_adjustments returns the neutral values (home-advantage
\* factor 1.0, draw bias 0.0, goals scale 1.0), raises nothing and leaves
\* every record and every file as it was.
NeutralBelowThirty ==
  [][ (Called("get_model_adjustments")
         /\ Cardinality(ResolvedIds(predictions)) < 30)
      => /\ trackRet'.kind = "adjustments"
         /\ trackRet'.adjustments.home_advantage_factor = 10
         /\ trackRet'.adjustments.draw_bias = 0
         /\ trackRet'.adjustments.goals_scale = 100
         /\ predictions' = predictions
         /\ storage' = storage ]_vars

\* adjustments were asked for with a resolved record in the last 90 days
\* whose home-win prediction was wrong
NeutralBelowThirtyWitness ==
  /\ trackRet.kind = "adjustments"
  /\ trackRet.completed_predictions > 0
  /\ trackRet.adjustments = NeutralAdjustments
  /\ \E id \in ResolvedIds(predictions) :
       /\ predictions[id].predicted_winner = "home"
       /\ predictions[id].winner_correct = Some(FALSE)
       /\ DateRank(predictions[id].match_date) >= DateRank("2025-01")

\* the record of a match in _predictions, if there is one
RecordOf(P, id) == IF id \in DOMAIN P THEN Some(P[id]) ELSE None

\* _predictions after a call made on its own, at the time it was begun
Alone(P, call, t) ==
  IF call.op = "store_prediction" THEN store_prediction(P, call.request, t)
  ELSE update_outcome(P, call.request, t)

\* the number of the call that begun the running calls
RoundStart == nTrack - Len(round)

\* a store_prediction and an update_outcome for the same match ran at the
\* same time and both have returned
BothReturned ==
  /\ AllIdle
  /\ Len(round) = 2
  /\ round[1].match_id = round[2].match_id
  /\ round[1].op # round[2].op

\* C22: when a store_prediction and an update_outcome for the same match
\* run at the same time, the record of the match after both have returned
\* is the record left by the two calls made one after the other, in one of
\* the two orders.
Serialized ==
  BothReturned
  => LET id == round[1].match_id
         first == RoundStart + 1
         second == RoundStart + 2
     IN  RecordOf(predictions, id)
           \in { RecordOf(Alone(Alone(base, round[1], first),
                                round[2], second), id),
                 RecordOf(Alone(Alone(base, round[2], second),
                                round[1], first), id) }

\* store_prediction began first, update_outcome looked its record up before
\* the new record was assigned, and the new record has no outcome
SerializedWitness ==
  /\ BothReturned
  /\ round[1].op = "store_prediction"
  /\ round[1].match_id \in DOMAIN base
  /\ ~HasOutcome(predictions[round[1].match_id])

----------------------------------------------------------------------------
(* Properties of the rate limiter *)

\* C23: after an acquire call has returned, and until the next one begins,
\* the token count is at least 0 and strictly less than max_tokens, whatever
\* the times between the calls and whether or not the call had to wait.
TokensInRange ==
  (limiter.pc = "free" /\ nAcquire > 0)
  => /\ limiter.tokens >= 0
     /\ limiter.tokens < limiter.max_tokens

\* several acquire calls were made, one of them had to wait, and the last
\* one has returned with the bucket empty
TokensInRangeWitness ==
  /\ limiter.pc = "free"
  /\ nAcquire > 1
  /\ limiter.waits > 0
  /\ limiter.tokens = 0

\* the last entry of a list
Last(seq) == seq[Len(seq)]

\* a trial of simulate_league ends in this step
TrialRanked ==
  /\ sim.fn = "simulate_league"
  /\ sim.pc = "fixtures"
  /\ sim'.trial = sim.trial + 1

\* C24: the ranks recorded at the end of a league trial follow (points
\* descending, goal difference descending): of two teams, the one with the
\* smaller recorded rank has more final points than the other, or the same
\* points and a goal difference that is not lower.
RankingFollowsKey ==
  [][ TrialRanked
      => \A a, b \in DOMAIN sim.sim_points :
           Last(sim'.final_positions[a]) < Last(sim'.final_positions[b])
           => \/ sim.sim_points[a] > sim.sim_points[b]
              \/ /\ sim.sim_points[a] = sim.sim_points[b]
                 /\ sim.sim_gd[a] >= sim.sim_gd[b] ]_vars

\* a trial in which Porto, second in team_data, is ranked first with the
\* points of Lyon and the better goal difference
RankingFollowsKeyWitness ==
  /\ sim.fn = "simulate_league"
  /\ sim.pc = "statistics"
  /\ sim.sorted_teams = << "Porto", "Lyon" >>
  /\ Last(sim.final_points["Porto"]) = Last(sim.final_points["Lyon"])
  /\ Last(sim.final_positions["Porto"]) = 1

----------------------------------------------------------------------------
(* Further properties of the knockout simulator *)

\* C25: in every generated Round-of-16 bracket each pair is a group winner
\* and a runner-up from different groups and, when the runner-up has a
\* country, from different countries; no runner-up is in two pairs.
BracketWithinExclusions ==
  BracketDrawn
  => /\ \A k \in DOMAIN sim.ties :
          LET winner == TeamNamed(sim.teams, sim.ties[k][1])
              runner == TeamNamed(sim.teams, sim.ties[k][2])
          IN  /\ IsGroupWinner(winner)
              /\ IsRunnerUp(runner)
              /\ runner.group # winner.group
              /\ runner.country # "" => runner.country # winner.country
     /\ \A k, l \in DOMAIN sim.ties :
          k # l => sim.ties[k][2] # sim.ties[l][2]

\* a bracket of the default entry list in which the exclusions left a group
\* winner without a runner-up
BracketWithinExclusionsWitness ==
  /\ BracketDrawn
  /\ sim.teams = CL_TEAMS_2025_26
  /\ Len(sim.ties) = 7

----------------------------------------------------------------------------
(* Further properties of the league simulator *)

\* the trials of simulate_league are running or have just ended
TrialsRunning ==
  /\ sim.fn = "simulate_league"
  /\ sim.pc \in { "fixtures", "statistics" }

\* C26: in every trial of a league simulation the recorded ranks are a
\* permutation of 1..T over the T teams of the standings (rows of the same
\* name are one team): each rank is given to exactly one team, every team
\* has one rank a trial, and over the trials rank 1 was given as often as
\* there were trials.
RanksArePermutation ==
  TrialsRunning
  => LET teams == TeamNames(sim.team_data)
         T == Cardinality(teams)
     IN  /\ \A team \in teams : Len(sim.final_positions[team]) = sim.trial
         /\ \A n \in 1..sim.trial :
              \A rank \in 1..T :
                Cardinality({ team \in teams :
                                sim.final_positions[team][n] = rank }) = 1
         /\ \A team \in teams :
              SumSeq([ rank \in 1..T |->
                         CountOf(sim.final_positions[team], rank) ])
                = sim.trial
         /\ SumSeq([ k \in DOMAIN sim.team_data |->
                       CountOf(sim.final_positions[sim.team_data[k].name], 1) ])
              = sim.trial

\* two trials have been ranked and a team has a different rank in each
RanksArePermutationWitness ==
  /\ TrialsRunning
  /\ sim.trial = 2
  /\ \E team \in TeamNames(sim.team_data) :
       sim.final_positions[team][1] # sim.final_positions[team][2]

\* the sum of a table over the teams of team_data
TableSum(table) ==
  SumSeq([ k \in DOMAIN sim.team_data |-> table[sim.team_data[k].name] ])

\* the loop over remaining_fixtures makes one pass in this step
FixturePassed ==
  /\ sim.fn = "simulate_league"
  /\ sim.pc = "fixtures"
  /\ sim'.trial = sim.trial
  /\ sim'.fixture = sim.fixture + 1

\* the next state is the start of a trial
TrialStarts ==
  /\ sim'.fn = "simulate_league"
  /\ sim'.pc = "fixtures"
  /\ sim'.fixture = 1

\* the points the standings give for the team: those of its last row
CurrentPoints(team) ==
  LET rows == sim'.current_standings
  IN  rows[CHOOSE i \in DOMAIN rows :
             /\ rows[i].name = team
             /\ \A j \in DOMAIN rows : rows[j].name = team => j <= i].points

\* C27: within a trial a simulated fixture adds 3 points in total to the
\* table when it has a winner and 2 when it is drawn, and leaves the sum of
\* the goal differences as it was; a skipped fixture changes no points and no
\* goal difference; every trial starts from the current points of the
\* standings.
FixturePoints ==
  [][ /\ FixturePassed
        => IF sim'.score = << >>
           THEN /\ sim'.sim_points = sim.sim_points
                /\ sim'.sim_gd = sim.sim_gd
           ELSE /\ TableSum(sim'.sim_points) - TableSum(sim.sim_points)
                     = IF sim'.score[1][1] = sim'.score[1][2] THEN 2 ELSE 3
                /\ TableSum(sim'.sim_gd) = TableSum(sim.sim_gd)
      /\ TrialStarts
        => \A team \in DOMAIN sim'.sim_points :
             sim'.sim_points[team] = CurrentPoints(team) ]_vars

\* in the second trial a fixture was skipped and the next one was won by
\* one of the teams
FixturePointsWitness ==
  /\ sim.fn = "simulate_league"
  /\ sim.pc = "fixtures"
  /\ sim.trial = 1
  /\ sim.fixture = 3
  /\ sim.score # << >>
  /\ sim.score[1][1] # sim.score[1][2]

\* a trial of the continental cup has ended
ContinentalTrialOver ==
  /\ sim.fn = "simulate_champions_league"
  /\ sim.pc \in { "trial", "statistics" }
  /\ sim.trial > 0

\* C28: every trial of a continental-cup simulation over an accepted list of
\* 16 teams crowns a champion: the winner counts of the result add up to
\* n_simulations and the most likely winner is never "Unknown".
EveryTrialCrowns ==
  /\ ContinentalTrialOver => sim.champion # NoTeam
  /\ (sim.fn = "simulate_champions_league" /\ sim.pc = "done")
     => /\ sim.result.most_likely_winner # NoTeam
        /\ SumOver(sim.result.winner_counts, DOMAIN sim.result.winner_counts)
             = sim.result.n_simulations

\* C29: in the result of every knockout simulation, for every team the
\* number of trials it won is at most the number of trials it was a finalist
\* in, which is at most the number of trials it was a semi-finalist in (the
\* probabilities are these counts over the same total).
ChampionWasFinalist ==
  (sim.fn \in CupModes /\ sim.pc = "done")
  => \A team \in DOMAIN sim.result.winner_counts :
       /\ sim.result.winner_counts[team] <= sim.result.final_counts[team]
       /\ sim.result.final_counts[team] <= sim.result.semi_counts[team]

----------------------------------------------------------------------------
(* Further properties of the tracker *)

\* C30: a resolved record whose scoreline was right also has the winner
\* right, and the metrics never count more exact scorelines than right
\* winners.
ScorelineImpliesWinner ==
  /\ \A id \in ResolvedIds(predictions) :
       predictions[id].scoreline_correct = Some(TRUE)
       => predictions[id].winner_correct = Some(TRUE)
  /\ trackRet.kind = "metrics"
     => trackRet.metrics.exact_scoreline_count
          <= trackRet.metrics.winner_correct_count

====
